---------------------------- MODULE Spec2Model ----------------------------
(***************************************************************************)
(* A model of the enhanced_rlm retrieval pipeline:                         *)
(*   search.py  (KnowledgeSearch), chunker.py (Chunker), ranker.py         *)
(*   (Ranker), haiku_client.py (HaikuDistiller and its response cache),    *)
(*   config.py (budgets, search paths) and server.py (ask_knowledge_base). *)
(*                                                                         *)
(* Python strings are modelled as sequences of one-character strings, so   *)
(* that lower(), count(), slicing, split() and the regular expressions are *)
(* computed character by character, as the code computes them.             *)
(***************************************************************************)
EXTENDS Integers, Sequences, FiniteSets, TLC

VARIABLES
    \* ---- Ranker.rank (ranker.py) ----
    rk_pc,          \* "off" | "ready" | "ranked" | "deduplicated"
    chunks,         \* rank's argument chunks: a list of Chunk
    keywords,       \* rank's argument keywords: a list of strings
    top_n,          \* Ranker.top_n
    scored,         \* rank's local list of kept chunks, before sort and slice
    ranked,         \* the list rank returned
    rk_deduplicated, \* the list deduplicate returned for it
    \* ---- KnowledgeSearch.ripgrep_search (search.py) ----
    s_pc,           \* "off" | "ready" | "returned" | "raised"
    root_file,      \* content of <workspace>/CLAUDE.md, or None: no such file
    docs_folder,    \* <workspace>/.claude/: whether it exists, and its files
    use_ripgrep,    \* KnowledgeSearch._use_ripgrep
    prints_path,    \* whether a tool prefixes the path when the root is a file
    s_keywords,     \* ripgrep_search's argument keywords
    max_results,    \* ripgrep_search's argument max_results
    invocations,    \* the tool invocations made, in order
    results,        \* the list the search returned
    \* ---- Chunker (chunker.py) ----
    c_pc,           \* "off" | "ready" | "returned"
    c_path,         \* the file_path argument
    c_file,         \* the file at c_path: whether it can be read, its text
    c_source,       \* the text that was segmented
    c_chunks,       \* the list of Chunk returned
    \* ---- get_token_budget (config.py) ----
    b_pc,           \* "off" | "ready" | "returned"
    b_query_type,   \* the argument query_type
    b_budget,       \* the budget returned
    \* ---- HaikuDistiller.distill and the response cache (haiku_client.py)
    cache,          \* _response_cache: key -> (content, timestamp)
    now,            \* time.time()
    ticks,          \* how many times the clock has advanced
    client,         \* whether HaikuDistiller._client is set
    backend_calls,  \* how many times client.messages.create was called
    d_calls,        \* how many distill calls have begun
    d_pc,           \* per thread: where its distill call is
    d_args,         \* per thread: query, ranked_chunks, use_cache
    d_local,        \* per thread: the call's local variables
    d_result,       \* per thread: the DistillationResult returned
    stored,         \* history: per (query, ranked_chunks), the response
                    \* last stored by a call with these arguments and not
                    \* cleared since
    d_begin,        \* history, per thread: the cache, the stored response
                    \* for the call's arguments and backend_calls when the
                    \* call began, the time of its lookup, whether the
                    \* backend failed
    \* ---- ask_knowledge_base (server.py) ----
    a_pc,           \* "off" | "ready" | "returned" | "raised"
    a_initialized,  \* whether init_server has set _config
    a_query,        \* the argument query
    a_context,      \* the argument context, or None
    a_stage,        \* the step at which the call returned
    a_ranked,       \* ranked_chunks after deduplicate, when it got there
    a_distilled,    \* the calls of HaikuDistiller.distill that it made
    a_response,     \* the text returned
    a_tools,        \* what an invocation of each tool on each root did, or
                    \* would have done, during the call
    \* ---- Chunker.chunk_from_results (chunker.py) ----
    f_pc,           \* "off" | "ready" | "files" | "returned"
    f_results,      \* the argument results: a list of SearchResult
    f_by_file,      \* the keys of results_by_file, in insertion order
    f_i,            \* the position in f_by_file of the next file
    f_chunks,       \* the local list chunks, returned at the end
    f_segmented,    \* history: the paths chunk_file was called with
    \* ---- Ranker.deduplicate (ranker.py) ----
    u_pc,           \* "off" | "ready" | "returned"
    u_ranked,       \* the argument ranked_chunks
    u_result,       \* the list returned
    \* ---- classify_query (haiku_client.py) ----
    q_pc,           \* "off" | "ready" | "returned" | "both"
    q_query,        \* the argument query
    q_type,         \* the query type returned
    q_server_type,  \* the query type server.classify_query returned
    \* ---- KnowledgeSearch.extract_keywords (search.py) ----
    k_pc,           \* "off" | "ready" | "extracted" | "again"
    k_query,        \* the argument query
    k_keywords,     \* the keywords returned for k_query
    k_again,        \* the keywords returned for " ".join(k_keywords)
    \* ---- wsl_path_to_linux (search.py) ----
    w_pc,           \* "off" | "ready" | "returned"
    w_path,         \* str(path) of the argument
    w_linux         \* the string returned

rankVars == <<rk_pc, chunks, keywords, top_n, scored, ranked,
              rk_deduplicated>>

searchVars == <<s_pc, root_file, docs_folder, use_ripgrep, prints_path,
                s_keywords, max_results, invocations, results>>

chunkVars == <<c_pc, c_path, c_file, c_source, c_chunks>>

budgetVars == <<b_pc, b_query_type, b_budget>>

distillVars == <<cache, now, ticks, client, backend_calls, d_calls, d_pc,
                 d_args, d_local, d_result, stored, d_begin>>

askVars == <<a_pc, a_initialized, a_query, a_context, a_stage, a_ranked,
             a_distilled, a_response, a_tools>>

fromVars == <<f_pc, f_results, f_by_file, f_i, f_chunks, f_segmented>>

dedupVars == <<u_pc, u_ranked, u_result>>

classifyVars == <<q_pc, q_query, q_type, q_server_type>>

keywordVars == <<k_pc, k_query, k_keywords, k_again>>

wslVars == <<w_pc, w_path, w_linux>>

vars == <<rankVars, searchVars, chunkVars, budgetVars, distillVars, askVars,
          fromVars, dedupVars, classifyVars, keywordVars, wslVars>>

(***************************************************************************)
(* Strings                                                                 *)
(***************************************************************************)

\* a string literal as the list of its characters
Chars(str) == [i \in 1..Len(str) |-> SubSeq(str, i, i)]

\* Python's None, where a string may stand: a value that is no string of
\* one-character elements, and that equality can tell from every string
None == <<"None">>

Min(a, b) == IF a <= b THEN a ELSE b

UpperLetters ==
    <<"A","B","C","D","E","F","G","H","I","J","K","L","M",
      "N","O","P","Q","R","S","T","U","V","W","X","Y","Z">>

LowerLetters ==
    <<"a","b","c","d","e","f","g","h","i","j","k","l","m",
      "n","o","p","q","r","s","t","u","v","w","x","y","z">>

\* str.lower() on one character
LowerChar(c) ==
    IF \E i \in 1..26 : UpperLetters[i] = c
    THEN LowerLetters[CHOOSE i \in 1..26 : UpperLetters[i] = c]
    ELSE c

\* str.lower()
Lower(s) == [i \in 1..Len(s) |-> LowerChar(s[i])]

\* s[:n] for n >= 0
Take(s, n) == SubSeq(s, 1, Min(n, Len(s)))

\* s[n:] for n >= 0 (n is a 0-based offset)
Drop(s, n) == SubSeq(s, n + 1, Len(s))

\* whether sub occurs in s starting at the 1-based position i
OccursAt(sub, s, i) ==
    /\ i >= 1
    /\ i + Len(sub) - 1 <= Len(s)
    /\ \A k \in 1..Len(sub) : s[i + k - 1] = sub[k]

\* Python's  sub in s
Contains(sub, s) == \E i \in 1..(Len(s) + 1) : OccursAt(sub, s, i)

\* Python's s.count(sub): non-overlapping occurrences, scanned left to right
RECURSIVE CountFrom(_, _, _)
CountFrom(sub, s, i) ==
    IF i + Len(sub) - 1 > Len(s) THEN 0
    ELSE IF OccursAt(sub, s, i)
         THEN 1 + CountFrom(sub, s, i + (IF Len(sub) = 0 THEN 1 ELSE Len(sub)))
         ELSE CountFrom(sub, s, i + 1)

Count(sub, s) == CountFrom(sub, s, 1)

\* "".join(parts) and sep.join(parts)
RECURSIVE Join(_, _)
Join(sep, parts) ==
    IF Len(parts) = 0 THEN <<>>
    ELSE IF Len(parts) = 1 THEN parts[1]
    ELSE parts[1] \o sep \o Join(sep, Tail(parts))

\* a string of n copies of the character c
Rep(c, n) == [i \in 1..n |-> c]

\* the set of lists of at most n elements of S
ListsUpTo(S, n) == UNION {[1..k -> S] : k \in 0..n}

\* the characters str.strip() removes and the regular expressions' \s matches
Whitespace == {" ", "\t", "\n", "\r", "\f"}

\* str.strip()
RECURSIVE LStrip(_)
LStrip(s) ==
    IF Len(s) > 0 /\ s[1] \in Whitespace THEN LStrip(Tail(s)) ELSE s

RECURSIVE RStrip(_)
RStrip(s) ==
    IF Len(s) > 0 /\ s[Len(s)] \in Whitespace
    THEN RStrip(SubSeq(s, 1, Len(s) - 1)) ELSE s

Strip(s) == RStrip(LStrip(s))

\* s.split("\n"): the list of the lines of s, one more than its newlines
RECURSIVE SplitAcc(_, _, _)
SplitAcc(s, i, cur) ==
    IF i > Len(s) THEN <<cur>>
    ELSE IF s[i] = "\n" THEN <<cur>> \o SplitAcc(s, i + 1, <<>>)
    ELSE SplitAcc(s, i + 1, Append(cur, s[i]))

SplitLines(s) == SplitAcc(s, 1, <<>>)

Digits == <<"0", "1", "2", "3", "4", "5", "6", "7", "8", "9">>

IsDigit(c) == \E d \in 1..10 : Digits[d] = c

\* str(n) for n >= 0
RECURSIVE Decimal(_)
Decimal(n) ==
    IF n < 10 THEN <<Digits[n + 1]>>
    ELSE Append(Decimal(n \div 10), Digits[(n % 10) + 1])

\* int(s) for a string of digits
RECURSIVE ToInt(_)
ToInt(s) ==
    IF Len(s) = 0 THEN 0
    ELSE 10 * ToInt(SubSeq(s, 1, Len(s) - 1))
         + ((CHOOSE d \in 1..10 : Digits[d] = s[Len(s)]) - 1)


(***************************************************************************)
(* Chunk (chunker.py) and RankedChunk (ranker.py)                          *)
(***************************************************************************)

\* the dataclass Chunk; header is None or a string
Chunk(file_path, start_line, end_line, content, header) ==
    [file_path |-> file_path, start_line |-> start_line, end_line |-> end_line,
     content |-> content, header |-> header]

\* the dataclass RankedChunk
RankedChunk(chunk, score, matched_keywords) ==
    [chunk |-> chunk, score |-> score, matched_keywords |-> matched_keywords]

(***************************************************************************)
(* Fixed-point arithmetic for the scores.  math.log is tabulated in        *)
(* thousandths, additively over the prime factors so that equal quotients  *)
(* total/(1+df) have equal logarithms, as they do for the floats; a score  *)
(* is an integer number of millionths.                                     *)
(***************************************************************************)

\* 1000 * ln(n), n = 1..24
LnMilliTable ==
    <<0, 693, 1099, 1386, 1609, 1792, 1946, 2079, 2198, 2302, 2398, 2485,
      2565, 2639, 2708, 2772, 2833, 2891, 2944, 2995, 3045, 3091, 3135, 3178>>

\* 1000 * math.log(num / den)
LnMilli(num, den) == LnMilliTable[num] - LnMilliTable[den]

\* 1000000 * math.sqrt(n), n = 1..8
SqrtMicroTable ==
    <<1000000, 1414214, 1732051, 2000000, 2236068, 2449490, 2645751, 2828427>>

(***************************************************************************)
(* Ranker (ranker.py)                                                      *)
(***************************************************************************)

\* the keys of a dict filled in list order: first occurrences, in order
RECURSIVE DictKeys(_)
DictKeys(kws) ==
    IF Len(kws) = 0 THEN <<>>
    ELSE LET rest == DictKeys(SubSeq(kws, 1, Len(kws) - 1))
             last == kws[Len(kws)]
         IN  IF \E i \in 1..Len(rest) : rest[i] = last THEN rest
             ELSE Append(rest, last)

\* chunk.header or ""
HeaderOrEmpty(chunk) == IF chunk.header = None THEN <<>> ELSE chunk.header

\* f"{header} {content}"
CombinedText(chunk) == HeaderOrEmpty(chunk) \o <<" ">> \o chunk.content

\* Ranker._keyword_frequency: text_lower.count(kw.lower())
keyword_frequency(text, kw) == Count(Lower(kw), Lower(text))

\* the Counter doc_frequencies of rank: one increment per position of the
\* keyword list and per chunk whose combined text contains the keyword
RECURSIVE SumOver(_, _)
SumOver(f, n) == IF n = 0 THEN 0 ELSE f[n] + SumOver(f, n - 1)

\* a count of the keyword's occurrences in the chunks instead of the chunks
doc_frequency_occurrences(chs, kws, kw) ==
    LET hits == [c \in 1..Len(chs) |->
                    keyword_frequency(CombinedText(chs[c]), kw)
                        * Cardinality({i \in 1..Len(kws) : kws[i] = kw})]
    IN  SumOver(hits, Len(chs))

doc_frequency(chs, kws, kw) ==
    LET hits == [c \in 1..Len(chs) |->
                    IF Contains(Lower(kw), Lower(CombinedText(chs[c])))
                    THEN Cardinality({i \in 1..Len(kws) : kws[i] = kw})
                    ELSE 0]
    IN  SumOver(hits, Len(chs))

\* the boost 2.0 if kw.lower() in header.lower() else 1.0
header_boost(chunk, kw) ==
    IF Contains(Lower(kw), Lower(HeaderOrEmpty(chunk))) THEN 2 ELSE 1

\* one keyword's term tf_score * idf_score * header_boost, in millionths
TermScore(chunk, kw, df, total_docs) ==
    LnMilli(1 + keyword_frequency(CombinedText(chunk), kw), 1)
        * LnMilli(total_docs, 1 + df) * header_boost(chunk, kw)

\* the list matched of _calculate_score: the keys with tf > 0, in dict order
MatchedKeywords(chunk, kws) ==
    SelectSeq(DictKeys(kws),
              LAMBDA kw : keyword_frequency(CombinedText(chunk), kw) > 0)

\* math.sqrt(len(matched)) if matched else 0
diversity_boost(matched) ==
    IF Len(matched) = 0 THEN 0 ELSE SqrtMicroTable[Len(matched)]

\* Ranker._calculate_score: the pair (score, matched)
calculate_score(chunk, kws, chs) ==
    LET matched == MatchedKeywords(chunk, kws)
        terms == [i \in 1..Len(matched) |->
                     TermScore(chunk, matched[i],
                               doc_frequency(chs, kws, matched[i]), Len(chs))]
    IN  [score |-> SumOver(terms, Len(matched)) + diversity_boost(matched),
         matched |-> matched]

\* a filter that also keeps a score of exactly 0
IncludedNonNegative(score) == score >= 0

\* if score > 0: ranked.append(...)
Included(score) == score > 0

\* the loop of rank that scores each chunk and keeps those with score > 0
Scored(chs, kws) ==
    LET all == [c \in 1..Len(chs) |->
                   LET r == calculate_score(chs[c], kws, chs)
                   IN  RankedChunk(chs[c], r.score, r.matched)]
    IN  SelectSeq(all, LAMBDA rc : Included(rc.score))

\* an insertion that puts a chunk before the chunks of equal score
RECURSIVE InsertDescBeforeEqual(_, _)
InsertDescBeforeEqual(sorted, rc) ==
    IF Len(sorted) = 0 THEN <<rc>>
    ELSE IF sorted[Len(sorted)].score > rc.score THEN Append(sorted, rc)
    ELSE Append(InsertDescBeforeEqual(SubSeq(sorted, 1, Len(sorted) - 1), rc),
                sorted[Len(sorted)])

\* list.sort(key=score, reverse=True): stable, descending
RECURSIVE InsertDesc(_, _)
InsertDesc(sorted, rc) ==
    IF Len(sorted) = 0 THEN <<rc>>
    ELSE IF sorted[Len(sorted)].score >= rc.score THEN Append(sorted, rc)
    ELSE Append(InsertDesc(SubSeq(sorted, 1, Len(sorted) - 1), rc),
                sorted[Len(sorted)])

RECURSIVE SortDesc(_)
SortDesc(rcs) ==
    IF Len(rcs) = 0 THEN <<>>
    ELSE InsertDesc(SortDesc(SubSeq(rcs, 1, Len(rcs) - 1)), rcs[Len(rcs)])

\* rank without the cut to the first top_n
rank_all(chs, kws, n) ==
    IF Len(chs) = 0 \/ Len(kws) = 0 THEN <<>>
    ELSE SortDesc(Scored(chs, kws))

\* Ranker.rank
rank(chs, kws, n) ==
    IF Len(chs) = 0 \/ Len(kws) = 0 THEN <<>>
    ELSE Take(SortDesc(Scored(chs, kws)), n)


(***************************************************************************)
(* Config (config.py): the knowledge base's paths                          *)
(***************************************************************************)

workspace_path == Chars("/w")

\* Config.root_file_path
root_file_path == workspace_path \o Chars("/CLAUDE.md")

\* Config.docs_folder_path
docs_folder_path == workspace_path \o Chars("/.claude")

\* a file of the knowledge base
File(path, content) == [path |-> path, content |-> content]

\* a documentation folder: missing, or holding a list of files
NoFolder == [exists |-> FALSE, files |-> <<>>]
Folder(files) == [exists |-> TRUE, files |-> files]

\* Config.has_knowledge_base
has_knowledge_base(rf, df) == rf # None \/ df.exists

\* the search paths with the folder before the root document
get_search_paths_folder_first(rf, df) ==
    (IF df.exists THEN <<"docs_folder">> ELSE <<>>)
        \o (IF rf # None THEN <<"root_file">> ELSE <<>>)

\* Config.get_search_paths: the root document first, then the folder
get_search_paths(rf, df) ==
    (IF rf # None THEN <<"root_file">> ELSE <<>>)
        \o (IF df.exists THEN <<"docs_folder">> ELSE <<>>)

\* the path of a search root
RootPath(root) ==
    IF root = "root_file" THEN root_file_path ELSE docs_folder_path

\* the files a tool reads under a search root, in the order it reports them
FilesUnder(root, rf, df) ==
    IF root = "root_file" THEN <<File(root_file_path, rf)>>
    ELSE [i \in 1..Len(df.files) |->
             File(docs_folder_path \o <<"/">> \o df.files[i].name,
                  df.files[i].content)]

(***************************************************************************)
(* The search tools (rg, grep) as search.py invokes them                   *)
(***************************************************************************)

\* Path.suffix: from the last dot of the name, "" when it has none
RECURSIVE Suffix(_)
Suffix(path) ==
    IF Len(path) = 0 \/ path[Len(path)] = "/" THEN <<>>
    ELSE IF path[Len(path)] = "." THEN <<".">>
    ELSE LET rest == Suffix(SubSeq(path, 1, Len(path) - 1))
         IN  IF Len(rest) = 0 THEN <<>> ELSE Append(rest, path[Len(path)])

\* KnowledgeBaseConfig.file_patterns: the --glob list given to rg
RgSuffixes ==
    { Chars(".md"), Chars(".py"), Chars(".prg"), Chars(".ch"), Chars(".c"),
      Chars(".h"), Chars(".cs"), Chars(".ts"), Chars(".tsx"), Chars(".js"),
      Chars(".jsx"), Chars(".sql"), Chars(".ps1"), Chars(".sh") }

\* the --include list given to grep
GrepSuffixes == { Chars(".md"), Chars(".prg"), Chars(".c"), Chars(".py") }

ToolSuffixes(tool) == IF tool = "rg" THEN RgSuffixes ELSE GrepSuffixes

\* the pattern "|".join(re.escape(kw) ...) under --ignore-case / -i
LineMatches(line, kws) ==
    \E k \in 1..Len(kws) : Contains(Lower(kws[k]), Lower(line))

\* the 1-based numbers of the matching lines of a file, ascending, cut by
\* --max-count / -m, which caps the matching lines of each file searched
RECURSIVE MatchingLines(_, _, _, _)
MatchingLines(lines, kws, i, cap) ==
    IF i > Len(lines) \/ cap <= 0 THEN <<>>
    ELSE IF Len(lines[i]) > 0 /\ LineMatches(lines[i], kws)
         THEN <<i>> \o MatchingLines(lines, kws, i + 1, cap - 1)
         ELSE MatchingLines(lines, kws, i + 1, cap)

\* the lines a file ends in stdout as: path:line_number:content, or
\* line_number:content when the tool leaves the path out
FileOutput(file, kws, cap, with_path) ==
    LET lines == SplitLines(file.content)
        hits == MatchingLines(lines, kws, 1, cap)
    IN  [h \in 1..Len(hits) |->
            (IF with_path THEN file.path \o <<":">> ELSE <<>>)
                \o Decimal(hits[h]) \o <<":">> \o lines[hits[h]]]

\* stdout of one invocation with --max-count cap, split in lines
RECURSIVE ToolOutputFrom(_, _, _, _, _, _)
ToolOutputFrom(tool, files, i, kws, cap, with_path) ==
    IF i > Len(files) THEN <<>>
    ELSE (IF Suffix(files[i].path) \in ToolSuffixes(tool)
          THEN FileOutput(files[i], kws, cap, with_path) ELSE <<>>)
         \o ToolOutputFrom(tool, files, i + 1, kws, cap, with_path)

ToolOutput(tool, root, rf, df, kws, cap, file_with_path) ==
    ToolOutputFrom(tool, FilesUnder(root, rf, df), 1, kws, cap,
                   root = "docs_folder" \/ file_with_path)

(***************************************************************************)
(* KnowledgeSearch (search.py)                                             *)
(***************************************************************************)

\* the dataclass SearchResult
SearchResult(file_path, line_number, line_content, match_text) ==
    [file_path |-> file_path, line_number |-> line_number,
     line_content |-> line_content, match_text |-> match_text]

\* the end of the leading run of digits of s from position i (i - 1: none)
RECURSIVE DigitsEnd(_, _)
DigitsEnd(s, i) ==
    IF i <= Len(s) /\ IsDigit(s[i]) THEN DigitsEnd(s, i + 1) ELSE i - 1

\* re.match(r"^(.+?):(\d+):(.*)$", line): the positions of the first colon
\* that closes a non-empty group 1 and is followed by digits and a colon
ParseColons(line) ==
    {i \in 2..Len(line) :
        /\ line[i] = ":"
        /\ DigitsEnd(line, i + 1) > i
        /\ DigitsEnd(line, i + 1) < Len(line)
        /\ line[DigitsEnd(line, i + 1) + 1] = ":"}

\* the keyword recorded as match_text: the first that occurs in the content
RECURSIVE FirstKeywordIn(_, _, _)
FirstKeywordIn(content, kws, k) ==
    IF k > Len(kws) THEN <<>>
    ELSE IF Contains(Lower(kws[k]), Lower(content)) THEN kws[k]
    ELSE FirstKeywordIn(content, kws, k + 1)

\* the results parsed from the lines of stdout; a line that does not parse,
\* or is empty, is skipped
RECURSIVE ParseOutput(_, _)
ParseOutput(out, kws) ==
    IF Len(out) = 0 THEN <<>>
    ELSE LET line == out[1]
             colons == ParseColons(line)
         IN  (IF Len(line) = 0 \/ colons = {} THEN <<>>
              ELSE LET c == CHOOSE i \in colons : \A j \in colons : i <= j
                       e == DigitsEnd(line, c + 1)
                       content == Drop(line, e + 1)
                   IN  <<SearchResult(Take(line, c - 1),
                                      ToInt(SubSeq(line, c + 1, e)),
                                      Strip(content),
                                      FirstKeywordIn(content, kws, 1))>>)
             \o ParseOutput(Tail(out), kws)

\* one invocation, as recorded in the variable invocations
Invocation(tool, root, cap, outcome) ==
    [tool |-> tool, root |-> root, max_count |-> cap, outcome |-> outcome]

\* the loop over search_paths with a timeout skipped: the next root is tried
RECURSIVE SearchLoopPastTimeout(_, _, _, _, _, _, _, _, _, _, _)
SearchLoopPastTimeout(tool, paths, i, rf, df, kws, max, oc, fwp, res, calls) ==
    IF i > Len(paths) \/ max - Len(res) <= 0
    THEN [status |-> "return", results |-> res, calls |-> calls]
    ELSE LET remaining == max - Len(res)
             outcome == oc[tool][paths[i]]
             called == Append(calls,
                              Invocation(tool, paths[i], remaining, outcome))
         IN  IF outcome = "FileNotFoundError"
             THEN [status |-> "FileNotFoundError", results |-> res,
                   calls |-> called]
             ELSE SearchLoopPastTimeout(tool, paths, i + 1, rf, df, kws, max,
                     oc, fwp,
                     res \o (IF outcome = "TimeoutExpired" THEN <<>>
                             ELSE ParseOutput(ToolOutput(tool, paths[i], rf,
                                                         df, kws, remaining,
                                                         fwp), kws)),
                     called)

\* the loop over search_paths of ripgrep_search (tool "rg") and _grep_search
\* (tool "grep"), from the i-th path on.  status "return": the loop ended or
\* broke (remaining <= 0, TimeoutExpired); "FileNotFoundError": the tool
\* could not be invoked.
RECURSIVE SearchLoop(_, _, _, _, _, _, _, _, _, _, _)
SearchLoop(tool, paths, i, rf, df, kws, max, oc, fwp, res, calls) ==
    IF i > Len(paths) \/ max - Len(res) <= 0
    THEN [status |-> "return", results |-> res, calls |-> calls]
    ELSE LET remaining == max - Len(res)
             outcome == oc[tool][paths[i]]
             called == Append(calls,
                              Invocation(tool, paths[i], remaining, outcome))
         IN  IF outcome = "TimeoutExpired"
             THEN [status |-> "return", results |-> res, calls |-> called]
             ELSE IF outcome = "FileNotFoundError"
             THEN [status |-> "FileNotFoundError", results |-> res,
                   calls |-> called]
             ELSE SearchLoop(tool, paths, i + 1, rf, df, kws, max, oc, fwp,
                     res \o ParseOutput(ToolOutput(tool, paths[i], rf, df, kws,
                                                   remaining, fwp), kws),
                     called)

\* a grep that cannot be invoked ends the loop as a timeout does
grep_search_swallow(rf, df, kws, max, oc, fwp, calls) ==
    IF Len(kws) = 0
    THEN [status |-> "return", results |-> <<>>, calls |-> calls]
    ELSE LET r == SearchLoop("grep", get_search_paths(rf, df), 1, rf, df, kws,
                             max, oc, fwp, <<>>, calls)
         IN  [status |-> "return", results |-> r.results, calls |-> r.calls]

\* KnowledgeSearch._grep_search; status "RuntimeError": neither tool is
\* available
grep_search(rf, df, kws, max, oc, fwp, calls) ==
    IF Len(kws) = 0
    THEN [status |-> "return", results |-> <<>>, calls |-> calls]
    ELSE LET r == SearchLoop("grep", get_search_paths(rf, df), 1, rf, df, kws,
                             max, oc, fwp, <<>>, calls)
         IN  IF r.status = "FileNotFoundError"
             THEN [status |-> "RuntimeError", results |-> <<>>,
                   calls |-> r.calls]
             ELSE r

\* KnowledgeSearch.ripgrep_search
ripgrep_search(rf, df, use_rg, kws, max, oc, fwp) ==
    IF Len(kws) = 0
    THEN [status |-> "return", results |-> <<>>, calls |-> <<>>]
    ELSE IF ~use_rg THEN grep_search(rf, df, kws, max, oc, fwp, <<>>)
    ELSE LET r == SearchLoop("rg", get_search_paths(rf, df), 1, rf, df, kws,
                             max, oc, fwp, <<>>, <<>>)
         IN  IF r.status = "FileNotFoundError"
             THEN grep_search(rf, df, kws, max, oc, fwp, r.calls)
             ELSE r

(***************************************************************************)
(* Searching: a knowledge base, the tools' behaviour, and one call of      *)
(* ripgrep_search                                                          *)
(***************************************************************************)

MaxDocFiles == 2
MaxResults == 2

\* contents of the root document
RootFilePool ==
    { Chars("opt a\nx\nopt b"), Chars("x"), Chars("x\nopt c") }

\* files of the documentation folder; grep is not told to read .sh files
DocFilePool ==
    { [name |-> Chars("A.md"), content |-> Chars("opt\nOPT 2\nx\n")],
      [name |-> Chars("B.py"), content |-> Chars("# opt\ny")],
      [name |-> Chars("C.sh"), content |-> Chars("opt:1:z")] }

SearchKeywordPool == { <<>>, <<Chars("opt")>>, <<Chars("zzz"), Chars("Opt")>> }

\* the listings of a folder: lists of files of pairwise different names
Listings ==
    {fs \in ListsUpTo(DocFilePool, MaxDocFiles) :
        \A i, j \in 1..Len(fs) : fs[i].name = fs[j].name => i = j}

Outcomes == {"ok", "TimeoutExpired", "FileNotFoundError"}

SearchOff ==
    /\ s_pc = "off"
    /\ root_file = None
    /\ docs_folder = NoFolder
    /\ use_ripgrep = FALSE
    /\ prints_path = FALSE
    /\ s_keywords = <<>>
    /\ max_results = 0
    /\ invocations = <<>>
    /\ results = <<>>

SearchInit ==
    /\ s_pc = "ready"
    /\ root_file \in {None} \cup RootFilePool
    /\ docs_folder \in {NoFolder} \cup {Folder(fs) : fs \in Listings}
    /\ use_ripgrep \in BOOLEAN
    /\ prints_path \in BOOLEAN
    /\ s_keywords \in SearchKeywordPool
    /\ max_results \in 1..MaxResults
    /\ invocations = <<>>
    /\ results = <<>>

\* what the invocations of each tool on each root do during one search
ToolOutcomes == [{"rg", "grep"} -> [{"root_file", "docs_folder"} -> Outcomes]]

\* search.ripgrep_search(keywords, max_results)
RipgrepSearch ==
    /\ s_pc = "ready"
    /\ \E oc \in ToolOutcomes :
          LET r == ripgrep_search(root_file, docs_folder, use_ripgrep,
                                  s_keywords, max_results, oc, prints_path)
          IN  /\ s_pc' = (IF r.status = "RuntimeError" THEN "raised"
                          ELSE "returned")
              /\ results' = r.results
              /\ invocations' = r.calls
    /\ UNCHANGED <<root_file, docs_folder, use_ripgrep, prints_path,
                   s_keywords, max_results>>


(***************************************************************************)
(* Regular expressions, matched as Python's re.match does: by backtracking,*)
(* alternatives left to right, quantifiers greedy.  An expression is       *)
(*   <<"set", S>>        one character of the set S                        *)
(*   <<"not", S>>        one character not in S                            *)
(*   <<"dot">>           one character other than a newline                *)
(*   <<"str", s>>        the characters of s                               *)
(*   <<"seq", <<r..>>>>  the expressions in sequence                       *)
(*   <<"alt", <<r..>>>>  one of the expressions                            *)
(*   <<"rep", r, m, n>>  r between m and n times                           *)
(*   <<"grp", r>>        r, captured as the next group                     *)
(*   <<"end">>           $                                                 *)
(***************************************************************************)

Letters == {UpperLetters[i] : i \in 1..26} \cup {LowerLetters[i] : i \in 1..26}

\* \w
WordChars == Letters \cup {Digits[i] : i \in 1..10} \cup {"_"}

\* r*, r+ (an upper bound of -1: any number of times), r?
Star(r) == <<"rep", r, 0, -1>>
Plus(r) == <<"rep", r, 1, -1>>
Opt(r) == <<"rep", r, 0, 1>>
Str(str) == <<"str", Chars(str)>>
Cat(rs) == <<"seq", rs>>
Alt(rs) == <<"alt", rs>>
Grp(r) == <<"grp", r>>
Ws == <<"set", Whitespace>>
Word == <<"set", WordChars>>

\* a state of the matcher: the 0-based position reached and the groups
\* captured so far, each as <<start, end>> (0-based, end exclusive)
MatchState(pos, groups) == [pos |-> pos, groups |-> groups]

SameChar(a, b, ic) == IF ic THEN LowerChar(a) = LowerChar(b) ELSE a = b

\* the states in which r can end when started in state st on the string s, in
\* the order backtracking tries them; ic: re.IGNORECASE
RECURSIVE Match(_, _, _, _)
RECURSIVE MatchSeq(_, _, _, _, _)
RECURSIVE MatchAlt(_, _, _, _, _)
RECURSIVE MatchRep(_, _, _, _, _, _)
RECURSIVE MatchAll(_, _, _, _, _)
RECURSIVE RepAll(_, _, _, _, _, _, _)

Match(r, s, st, ic) ==
    CASE r[1] = "set" ->
            IF st.pos < Len(s)
               /\ \E c \in r[2] : SameChar(c, s[st.pos + 1], ic)
            THEN <<MatchState(st.pos + 1, st.groups)>> ELSE <<>>
      [] r[1] = "not" ->
            IF st.pos < Len(s)
               /\ ~\E c \in r[2] : SameChar(c, s[st.pos + 1], ic)
            THEN <<MatchState(st.pos + 1, st.groups)>> ELSE <<>>
      [] r[1] = "dot" ->
            IF st.pos < Len(s) /\ s[st.pos + 1] # "\n"
            THEN <<MatchState(st.pos + 1, st.groups)>> ELSE <<>>
      [] r[1] = "str" ->
            IF /\ st.pos + Len(r[2]) <= Len(s)
               /\ \A k \in 1..Len(r[2]) : SameChar(r[2][k], s[st.pos + k], ic)
            THEN <<MatchState(st.pos + Len(r[2]), st.groups)>> ELSE <<>>
      [] r[1] = "seq" -> MatchSeq(r[2], 1, s, st, ic)
      [] r[1] = "alt" -> MatchAlt(r[2], 1, s, st, ic)
      [] r[1] = "rep" -> MatchRep(r[2], r[3], r[4], s, st, ic)
      [] r[1] = "grp" ->
            LET ends == Match(r[2], s, st, ic)
            IN  [e \in 1..Len(ends) |->
                    MatchState(ends[e].pos,
                               Append(ends[e].groups, <<st.pos, ends[e].pos>>))]
      [] r[1] = "end" ->
            IF st.pos = Len(s) \/ (st.pos = Len(s) - 1 /\ s[Len(s)] = "\n")
            THEN <<st>> ELSE <<>>

\* the rest of a sequence from its i-th expression, from each of the states
MatchAll(rs, i, s, sts, ic) ==
    IF Len(sts) = 0 THEN <<>>
    ELSE MatchSeq(rs, i, s, sts[1], ic) \o MatchAll(rs, i, s, Tail(sts), ic)

MatchSeq(rs, i, s, st, ic) ==
    IF i > Len(rs) THEN <<st>>
    ELSE MatchAll(rs, i + 1, s, Match(rs[i], s, st, ic), ic)

MatchAlt(rs, i, s, st, ic) ==
    IF i > Len(rs) THEN <<>>
    ELSE Match(rs[i], s, st, ic) \o MatchAlt(rs, i + 1, s, st, ic)

\* further repetitions from each of the states one repetition ended in; a
\* repetition that consumed nothing ends the loop
RepAll(r, m, n, s, sts, from, ic) ==
    IF Len(sts) = 0 THEN <<>>
    ELSE (IF sts[1].pos = from THEN (IF m <= 1 THEN <<sts[1]>> ELSE <<>>)
          ELSE MatchRep(r, IF m > 0 THEN m - 1 ELSE 0, n - 1, s, sts[1], ic))
         \o RepAll(r, m, n, s, Tail(sts), from, ic)

MatchRep(r, m, n, s, st, ic) ==
    (IF n = 0 THEN <<>>
     ELSE RepAll(r, m, n, s, Match(r, s, st, ic), st.pos, ic))
        \o (IF m = 0 THEN <<st>> ELSE <<>>)

\* pattern.match(line): None, or the groups of the first match found
NoMatch == [matched |-> FALSE, groups |-> <<>>]

ReMatch(r, line, ic) ==
    LET ends == Match(r, line, MatchState(0, <<>>), ic)
    IN  IF Len(ends) = 0 THEN NoMatch
        ELSE [matched |-> TRUE,
              groups |-> [g \in 1..Len(ends[1].groups) |->
                             SubSeq(line, ends[1].groups[g][1] + 1,
                                    ends[1].groups[g][2])]]

(***************************************************************************)
(* Chunker (chunker.py)                                                    *)
(***************************************************************************)

\* MD_HEADER_PATTERN  ^(#{1,6})\s+(.+)$
MD_HEADER_PATTERN ==
    [re |-> Cat(<<Grp(<<"rep", <<"set", {"#"}>>, 1, 6>>), Plus(Ws),
                  Grp(Plus(<<"dot">>)), <<"end">>>>),
     ignorecase |-> FALSE]

\* PRG_FUNCTION_PATTERN  ^\s*(?:static\s+)?function\s+(\w+)\s*\(
PRG_FUNCTION_PATTERN ==
    [re |-> Cat(<<Star(Ws), Opt(Cat(<<Str("static"), Plus(Ws)>>)),
                  Str("function"), Plus(Ws), Grp(Plus(Word)), Star(Ws),
                  Str("(")>>),
     ignorecase |-> TRUE]

\* C_FUNCTION_PATTERN  ^\s*(?:\w+\s+)*(\w+)\s*\([^)]*\)\s*\{
C_FUNCTION_PATTERN ==
    [re |-> Cat(<<Star(Ws), Star(Cat(<<Plus(Word), Plus(Ws)>>)),
                  Grp(Plus(Word)), Star(Ws), Str("("),
                  Star(<<"not", {")"}>>), Str(")"), Star(Ws), Str("{")>>),
     ignorecase |-> FALSE]

\* PYTHON_FUNCTION_PATTERN  ^\s*(?:async\s+)?def\s+(\w+)\s*\(
PYTHON_FUNCTION_PATTERN ==
    [re |-> Cat(<<Star(Ws), Opt(Cat(<<Str("async"), Plus(Ws)>>)), Str("def"),
                  Plus(Ws), Grp(Plus(Word)), Star(Ws), Str("(")>>),
     ignorecase |-> FALSE]

\* CSHARP_PATTERN
\*   ^\s*(?:public|private|protected|internal|static|async|virtual|override|\s)*
\*   (?:class|void|Task|async\s+Task|string|int|bool|IActionResult|\w+<[^>]+>|\w+)\s+
\*   (\w+)\s*(?:<[^>]+>)?\s*[\(\{]
CSHARP_PATTERN ==
    [re |-> Cat(<<Star(Ws),
                  Star(Alt(<<Str("public"), Str("private"), Str("protected"),
                             Str("internal"), Str("static"), Str("async"),
                             Str("virtual"), Str("override"), Ws>>)),
                  Alt(<<Str("class"), Str("void"), Str("Task"),
                        Cat(<<Str("async"), Plus(Ws), Str("Task")>>),
                        Str("string"), Str("int"), Str("bool"),
                        Str("IActionResult"),
                        Cat(<<Plus(Word), Str("<"), Plus(<<"not", {">"}>>),
                              Str(">")>>),
                        Plus(Word)>>),
                  Plus(Ws), Grp(Plus(Word)), Star(Ws),
                  Opt(Cat(<<Str("<"), Plus(<<"not", {">"}>>), Str(">")>>)),
                  Star(Ws), <<"set", {"(", "{"}>>>>),
     ignorecase |-> FALSE]

\* TS_FUNCTION_PATTERN  ^\s*(?:export\s+)?(?:async\s+)?function\s+(\w+)\s*\(
TS_FUNCTION_PATTERN ==
    [re |-> Cat(<<Star(Ws), Opt(Cat(<<Str("export"), Plus(Ws)>>)),
                  Opt(Cat(<<Str("async"), Plus(Ws)>>)), Str("function"),
                  Plus(Ws), Grp(Plus(Word)), Star(Ws), Str("(")>>),
     ignorecase |-> FALSE]

\* SQL_PATTERN  ^\s*(?:CREATE\s+)?(?:PROCEDURE|FUNCTION|PROC)\s+(?:\w+\.)?(\w+)
SQL_PATTERN ==
    [re |-> Cat(<<Star(Ws), Opt(Cat(<<Str("CREATE"), Plus(Ws)>>)),
                  Alt(<<Str("PROCEDURE"), Str("FUNCTION"), Str("PROC")>>),
                  Plus(Ws), Opt(Cat(<<Plus(Word), Str(".")>>)),
                  Grp(Plus(Word))>>),
     ignorecase |-> TRUE]

\* PS_FUNCTION_PATTERN  ^\s*function\s+(\w+(?:-\w+)*)\s*(?:\([^)]*\))?\s*\{
PS_FUNCTION_PATTERN ==
    [re |-> Cat(<<Star(Ws), Str("function"), Plus(Ws),
                  Grp(Cat(<<Plus(Word),
                            Star(Cat(<<Str("-"), Plus(Word)>>))>>)),
                  Star(Ws),
                  Opt(Cat(<<Str("("), Star(<<"not", {")"}>>), Str(")")>>)),
                  Star(Ws), Str("{")>>),
     ignorecase |-> TRUE]

\* BASH_FUNCTION_PATTERN  ^\s*(?:function\s+)?(\w+)\s*\(\s*\)\s*\{
BASH_FUNCTION_PATTERN ==
    [re |-> Cat(<<Star(Ws), Opt(Cat(<<Str("function"), Plus(Ws)>>)),
                  Grp(Plus(Word)), Star(Ws), Str("("), Star(Ws), Str(")"),
                  Star(Ws), Str("{")>>),
     ignorecase |-> FALSE]

\* pattern.match(line)
PatternMatch(pattern, line) == ReMatch(pattern.re, line, pattern.ignorecase)

\* Chunker._detect_file_type
detect_file_type(file_path) ==
    LET suffix == Lower(Suffix(file_path))
    IN  IF suffix \in {Chars(".md"), Chars(".markdown")} THEN "markdown"
        ELSE IF suffix \in {Chars(".prg"), Chars(".ch")} THEN "clipper"
        ELSE IF suffix \in {Chars(".c"), Chars(".h"), Chars(".cpp"),
                            Chars(".hpp")} THEN "c"
        ELSE IF suffix = Chars(".py") THEN "python"
        ELSE IF suffix = Chars(".cs") THEN "csharp"
        ELSE IF suffix \in {Chars(".ts"), Chars(".tsx"), Chars(".js"),
                            Chars(".jsx")} THEN "typescript"
        ELSE IF suffix = Chars(".sql") THEN "sql"
        ELSE IF suffix = Chars(".ps1") THEN "powershell"
        ELSE IF suffix = Chars(".sh") THEN "bash"
        ELSE "text"

\* the 0-based indices of the lines that pattern matches, ascending: the
\* first components of the lists headers and functions
RECURSIVE MatchedLines(_, _, _)
MatchedLines(lines, pattern, i) ==
    IF i > Len(lines) THEN <<>>
    ELSE (IF PatternMatch(pattern, lines[i]).matched THEN <<i - 1>> ELSE <<>>)
         \o MatchedLines(lines, pattern, i + 1)

\* an end_idx that reaches the line of the next match
EndIdxOnNextMatch(starts, i, lines) ==
    IF i + 1 <= Len(starts) THEN starts[i + 1] ELSE Len(lines) - 1

\* end_idx of the i-th section: the line before the next match, or the last
EndIdx(starts, i, lines) ==
    IF i + 1 <= Len(starts) THEN starts[i + 1] - 1 ELSE Len(lines) - 1

\* "\n".join(lines[line_idx:end_idx])
SectionContentExclusive(lines, line_idx, end_idx) ==
    Join(<<"\n">>, SubSeq(lines, line_idx + 1, end_idx))

\* "\n".join(lines[line_idx:end_idx + 1])
SectionContent(lines, line_idx, end_idx) ==
    Join(<<"\n">>, SubSeq(lines, line_idx + 1, end_idx + 1))

\* the chunk of the whole content, without header
WholeChunk(content, file_path) ==
    Chunk(file_path, 1, Len(SplitLines(content)), content, None)

\* Chunker.chunk_markdown
chunk_markdown(content, file_path) ==
    LET lines == SplitLines(content)
        headers == MatchedLines(lines, MD_HEADER_PATTERN, 1)
        sections ==
            [i \in 1..Len(headers) |->
                LET end_idx == EndIdx(headers, i, lines)
                    title == Strip(PatternMatch(MD_HEADER_PATTERN,
                                                lines[headers[i] + 1]).groups[2])
                IN  Chunk(file_path, headers[i] + 1, end_idx + 1,
                          SectionContent(lines, headers[i], end_idx), title)]
    IN  IF Len(headers) = 0 THEN <<WholeChunk(content, file_path)>>
        ELSE SelectSeq(sections, LAMBDA c : Len(Strip(c.content)) > 0)

\* chunk_code with the first chunk begun at the first line of the file
chunk_code_from_top(content, file_path, pattern) ==
    LET lines == SplitLines(content)
        functions == MatchedLines(lines, pattern, 1)
    IN  IF Len(functions) = 0 THEN <<WholeChunk(content, file_path)>>
        ELSE [i \in 1..Len(functions) |->
                 LET end_idx == EndIdx(functions, i, lines)
                     line_idx == IF i = 1 THEN 0 ELSE functions[i]
                     func_name == PatternMatch(pattern,
                                      lines[functions[i] + 1]).groups[1]
                 IN  Chunk(file_path, line_idx + 1, end_idx + 1,
                           SectionContent(lines, line_idx, end_idx),
                           Chars("function ") \o func_name)]

\* Chunker.chunk_code
chunk_code(content, file_path, pattern) ==
    LET lines == SplitLines(content)
        functions == MatchedLines(lines, pattern, 1)
    IN  IF Len(functions) = 0 THEN <<WholeChunk(content, file_path)>>
        ELSE [i \in 1..Len(functions) |->
                 LET end_idx == EndIdx(functions, i, lines)
                     func_name == PatternMatch(pattern,
                                      lines[functions[i] + 1]).groups[1]
                 IN  Chunk(file_path, functions[i] + 1, end_idx + 1,
                           SectionContent(lines, functions[i], end_idx),
                           Chars("function ") \o func_name)]

\* Path.read_text(encoding="utf-8", errors="replace") of a readable file:
\* text mode translates the line endings "\r\n" and "\r" to "\n"
RECURSIVE read_text(_)
read_text(data) ==
    IF Len(data) = 0 THEN <<>>
    ELSE IF data[1] = "\r"
         THEN <<"\n">> \o read_text(IF Len(data) > 1 /\ data[2] = "\n"
                                    THEN Drop(data, 2) ELSE Drop(data, 1))
    ELSE <<data[1]>> \o read_text(Drop(data, 1))

\* the dispatch of chunk_file on the file type, on the text read
chunk_text(content, file_path) ==
    LET file_type == detect_file_type(file_path)
    IN  CASE file_type = "markdown" -> chunk_markdown(content, file_path)
          [] file_type = "clipper" ->
                chunk_code(content, file_path, PRG_FUNCTION_PATTERN)
          [] file_type = "c" ->
                chunk_code(content, file_path, C_FUNCTION_PATTERN)
          [] file_type = "python" ->
                chunk_code(content, file_path, PYTHON_FUNCTION_PATTERN)
          [] file_type = "csharp" ->
                chunk_code(content, file_path, CSHARP_PATTERN)
          [] file_type = "typescript" ->
                chunk_code(content, file_path, TS_FUNCTION_PATTERN)
          [] file_type = "sql" ->
                chunk_code(content, file_path, SQL_PATTERN)
          [] file_type = "powershell" ->
                chunk_code(content, file_path, PS_FUNCTION_PATTERN)
          [] file_type = "bash" ->
                chunk_code(content, file_path, BASH_FUNCTION_PATTERN)
          [] OTHER -> <<WholeChunk(content, file_path)>>

\* a file that cannot be read taken as an empty text
chunk_file_empty_text(file_path, file) ==
    chunk_text(IF file.readable THEN read_text(file.data) ELSE <<>>,
               file_path)

\* Chunker.chunk_file: a file that cannot be read gives no chunk
chunk_file(file_path, file) ==
    IF ~file.readable THEN <<>>
    ELSE chunk_text(read_text(file.data), file_path)

(***************************************************************************)
(* Chunking: a file and one call of chunk_file, chunk_markdown or          *)
(* chunk_code                                                              *)
(***************************************************************************)

\* most lines in a file
MaxLines == 3

LinePool ==
    {<<>>, Chars("x\r"), Chars("# T"), Chars("function f() {"),
     Chars("def f(")}

ChunkPathPool ==
    {Chars("a.md"), Chars("a.MD"), Chars("a.prg"), Chars("a.c"),
     Chars("a.py"), Chars("a.cs"), Chars("a.ts"), Chars("a.sql"),
     Chars("a.ps1"), Chars("a.sh"), Chars("a.txt")}

CodePatterns ==
    {PRG_FUNCTION_PATTERN, C_FUNCTION_PATTERN, PYTHON_FUNCTION_PATTERN,
     CSHARP_PATTERN, TS_FUNCTION_PATTERN, SQL_PATTERN, PS_FUNCTION_PATTERN,
     BASH_FUNCTION_PATTERN}

\* the texts of 1..MaxLines lines of the pool; one empty line is the empty
\* text
TextPool ==
    {Join(<<"\n">>, ls) : ls \in ListsUpTo(LinePool, MaxLines) \ {<<>>}}

\* a file that cannot be read (missing, a directory, no permission)
Unreadable == [readable |-> FALSE, data |-> <<>>]

ChunkOff ==
    /\ c_pc = "off"
    /\ c_path = <<>>
    /\ c_file = Unreadable
    /\ c_source = <<>>
    /\ c_chunks = <<>>

ChunkInit ==
    /\ c_pc = "ready"
    /\ c_path \in ChunkPathPool
    /\ c_file \in {Unreadable} \cup [readable : {TRUE}, data : TextPool]
    /\ c_source = <<>>
    /\ c_chunks = <<>>

\* chunker.chunk_file(c_path)
ChunkFile ==
    /\ c_pc = "ready"
    /\ c_pc' = "returned"
    /\ c_source' = (IF c_file.readable THEN read_text(c_file.data) ELSE <<>>)
    /\ c_chunks' = chunk_file(c_path, c_file)
    /\ UNCHANGED <<c_path, c_file>>

\* chunker.chunk_markdown(content, c_path), content being any text
ChunkMarkdown ==
    /\ c_pc = "ready"
    /\ c_pc' = "returned"
    /\ c_source' = c_file.data
    /\ c_chunks' = chunk_markdown(c_file.data, c_path)
    /\ UNCHANGED <<c_path, c_file>>

\* chunker.chunk_code(content, c_path, pattern), content being any text
ChunkCode ==
    /\ c_pc = "ready"
    /\ \E pattern \in CodePatterns :
           c_chunks' = chunk_code(c_file.data, c_path, pattern)
    /\ c_pc' = "returned"
    /\ c_source' = c_file.data
    /\ UNCHANGED <<c_path, c_file>>

(***************************************************************************)
(* Ranking: the inputs of one call of Ranker.rank and the call             *)
(***************************************************************************)

MaxChunks == 3
MaxKeywords == 2
MaxTopN == 2

\* chunks to rank: with and without header, header in another case than the
\* keyword, an empty header, repeated keywords, no keyword at all
RankChunkPool ==
    { Chunk("f", 1, 1, <<"a">>, None),
      Chunk("f", 1, 1, <<"a">>, <<"A">>),
      Chunk("f", 1, 1, <<"a", "b">>, None),
      Chunk("g", 1, 1, <<"b">>, None),
      Chunk("g", 1, 1, <<"a", "a", "b">>, <<>>),
      Chunk("g", 2, 2, <<"c">>, None) }

RankKeywordPool == { <<"a">>, <<"B">> }

RankOff ==
    /\ rk_pc = "off"
    /\ chunks = <<>>
    /\ keywords = <<>>
    /\ top_n = 0
    /\ scored = <<>>
    /\ ranked = <<>>
    /\ rk_deduplicated = <<>>

RankInit ==
    /\ rk_pc = "ready"
    /\ chunks \in ListsUpTo(RankChunkPool, MaxChunks)
    /\ keywords \in ListsUpTo(RankKeywordPool, MaxKeywords)
    /\ top_n \in 1..MaxTopN
    /\ scored = <<>>
    /\ ranked = <<>>
    /\ rk_deduplicated = <<>>

\* ranker.rank(chunks, keywords)
Rank ==
    /\ rk_pc = "ready"
    /\ rk_pc' = "ranked"
    /\ scored' = (IF Len(chunks) = 0 \/ Len(keywords) = 0 THEN <<>>
                  ELSE Scored(chunks, keywords))
    /\ ranked' = rank(chunks, keywords, top_n)
    /\ UNCHANGED <<chunks, keywords, top_n, rk_deduplicated>>



(***************************************************************************)
(* Token budgets (config.py)                                               *)
(***************************************************************************)

\* HaikuConfig's defaults
simple_budget == 1000
code_example_budget == 4000
complex_budget == 6000
default_budget == 2000

HaikuConfig ==
    [simple_budget |-> simple_budget,
     code_example_budget |-> code_example_budget,
     complex_budget |-> complex_budget,
     default_budget |-> default_budget]

\* budgets.get(query_type, config.default_budget), the dictionary's keys
\* matched as a prefix of query_type
get_token_budget_by_prefix(query_type, config) ==
    IF Take(query_type, 6) = Chars("simple") THEN config.simple_budget
    ELSE IF Take(query_type, 12) = Chars("code_example")
         THEN config.code_example_budget
    ELSE IF Take(query_type, 7) = Chars("complex") THEN config.complex_budget
    ELSE config.default_budget

\* get_token_budget: budgets.get(query_type, config.default_budget)
get_token_budget(query_type, config) ==
    IF query_type = Chars("simple") THEN config.simple_budget
    ELSE IF query_type = Chars("code_example") THEN config.code_example_budget
    ELSE IF query_type = Chars("complex") THEN config.complex_budget
    ELSE config.default_budget

(***************************************************************************)
(* Budgeting: an intent string and one call of get_token_budget            *)
(***************************************************************************)

QueryTypes == {Chars("simple"), Chars("code_example"), Chars("complex")}

\* s without its i-th character
Without(str, i) == SubSeq(str, 1, i - 1) \o SubSeq(str, i + 1, Len(str))

\* the recognized intents and strings near them: prefixes, one character
\* missing, one character more, another case, and other words
QueryTypePool ==
    QueryTypes
    \cup {Take(q, k) : q \in QueryTypes, k \in 0..12}
    \cup {Without(q, k) : q \in QueryTypes, k \in 1..6}
    \cup {q \o <<c>> : q \in QueryTypes, c \in {" ", "s", "\n"}}
    \cup {<<c>> \o q : q \in QueryTypes, c \in {" ", "_"}}
    \cup {Chars("Simple"), Chars("SIMPLE"), Chars("Complex"),
          Chars("code"), Chars("example"), Chars("default"),
          Chars("code example"), Chars("code-example"), Chars("None")}

BudgetOff ==
    /\ b_pc = "off"
    /\ b_query_type = <<>>
    /\ b_budget = 0

BudgetInit ==
    /\ b_pc = "ready"
    /\ b_query_type \in QueryTypePool
    /\ b_budget = 0

\* get_token_budget(b_query_type, HaikuConfig())
GetTokenBudget ==
    /\ b_pc = "ready"
    /\ b_pc' = "returned"
    /\ b_budget' = get_token_budget(b_query_type, HaikuConfig)
    /\ UNCHANGED b_query_type

(***************************************************************************)
(* HaikuDistiller and the response cache (haiku_client.py)                 *)
(***************************************************************************)

CACHE_TTL_SECONDS == 3600

DistillationResult(content, query_type, token_budget, cached) ==
    [content |-> content, query_type |-> query_type,
     token_budget |-> token_budget, cached |-> cached]

\* "".join(c.chunk.content[:100] for c in chunks)
RECURSIVE JoinedHeads(_)
JoinedHeads(ranked_chunks) ==
    IF Len(ranked_chunks) = 0 THEN <<>>
    ELSE Take(ranked_chunks[1].chunk.content, 100)
         \o JoinedHeads(Tail(ranked_chunks))

\* _get_cache_key.  The two MD5 digests are taken as one-to-one, so the key
\* is the pair of the texts that are hashed.
get_cache_key(query, ranked_chunks) == <<query, JoinedHeads(ranked_chunks)>>

\* the dictionary _response_cache: a function from its keys
Entry(content, timestamp) == [content |-> content, timestamp |-> timestamp]
NoEntry == Entry(<<>>, 0)
EmptyCache == <<>>
CacheDel(c, key) == [k \in DOMAIN c \ {key} |-> c[k]]
CachePut(c, key, entry) ==
    [k \in DOMAIN c \cup {key} |-> IF k = key THEN entry ELSE c[k]]

\* time.time() - timestamp >= CACHE_TTL_SECONDS
IsFreshInverted(t, timestamp) == t - timestamp >= CACHE_TTL_SECONDS

\* _check_cache: time.time() - timestamp < CACHE_TTL_SECONDS
IsFresh(t, timestamp) == t - timestamp < CACHE_TTL_SECONDS

\* any(kw in query_lower for kw in kws)
AnyIn(kws, text) == \E i \in 1..Len(kws) : Contains(kws[i], text)

\* the indicators of haiku_client.classify_query
haiku_code_keywords ==
    <<Chars("example"), Chars("code"), Chars("pattern"), Chars("how to"),
      Chars("implement"), Chars("snippet"), Chars("sample"),
      Chars("template"), Chars("show me"), Chars("write")>>

haiku_complex_keywords ==
    <<Chars("explain"), Chars("architecture"), Chars("design"),
      Chars("complex"), Chars("overview"), Chars("understand"),
      Chars("describe"), Chars("analyze"), Chars("compare"),
      Chars("difference")>>

\* the complex indicators are looked for first
haiku_classify_query_complex_first(query) ==
    LET query_lower == Lower(query)
    IN  IF AnyIn(haiku_complex_keywords, query_lower) THEN Chars("complex")
        ELSE IF AnyIn(haiku_code_keywords, query_lower) THEN Chars("code_example")
        ELSE Chars("simple")

\* haiku_client.classify_query
haiku_classify_query(query) ==
    LET query_lower == Lower(query)
    IN  IF AnyIn(haiku_code_keywords, query_lower) THEN Chars("code_example")
        ELSE IF AnyIn(haiku_complex_keywords, query_lower) THEN Chars("complex")
        ELSE Chars("simple")

\* the truth value of an Optional[str]
Truthy(str) == str # None /\ Len(str) > 0

\* content[:500], and "..." when len(content) >= 500
truncate_content_from(content) ==
    Take(content, 500) \o (IF Len(content) >= 500 THEN Chars("...") ELSE <<>>)

\* _fallback_response: content[:500], and "..." when len(content) > 500
truncate_content(content) ==
    Take(content, 500) \o (IF Len(content) > 500 THEN Chars("...") ELSE <<>>)

\* the grave accent, a character that a string here cannot hold
Backtick == "GRAVE ACCENT"

\* _fallback_response: the header of the i-th source
fallback_header(i, chunk) ==
    Chars("**Source ") \o Decimal(i) \o Chars(":** ") \o <<Backtick>>
    \o chunk.file_path \o <<Backtick>>
    \o (IF Truthy(chunk.header) THEN Chars(" - ") \o chunk.header ELSE <<>>)

\* HaikuDistiller._fallback_response
fallback_response(ranked_chunks, query_type, token_budget) ==
    LET top == Take(ranked_chunks, 5)
        parts ==
            <<Chars("*[Haiku unavailable - showing raw search results]*\n")>>
            \o [i \in 1..Len(top) |->
                   fallback_header(i, top[i].chunk) \o <<"\n">>
                   \o truncate_content(top[i].chunk.content)]
    IN  DistillationResult(Join(Chars("\n\n---\n\n"), parts), query_type,
                           token_budget, FALSE)

\* distill, lines 224-231: the text of the response, stripped, or the fixed
\* message when there is none
result_content_of(text) ==
    LET stripped == IF text = None THEN <<>> ELSE Strip(text)
    IN  IF Len(stripped) = 0
        THEN Chars("No relevant information extracted from knowledge base.")
        ELSE stripped

(***************************************************************************)
(* Distilling: calls of HaikuDistiller.distill by one or two threads, the  *)
(* clock, and clear_cache.  A call advances one access to the shared cache *)
(* at a time.  The prompt that distill builds has no effect on the state   *)
(* and is left out; the backend's answer is any of BackendOutcomes.        *)
(***************************************************************************)

Threads == {1, 2}

\* most distill calls in a run, most advances of the clock
MaxCalls == 2
MaxConcurrentCalls == 3
MaxTicks == 2

\* by how much the clock advances at once
ClockSteps == {1, CACHE_TTL_SECONDS - 1}

QueryPool == {Chars("x"), Chars("Write x")}

\* one short chunk
OneChunk ==
    <<RankedChunk(Chunk(Chars("f"), 1, 1, Chars("!"), None), 1000000,
                  <<Chars("x")>>)>>

\* six chunks: contents of 501 and of 500 characters and four short ones,
\* each content of one character that occurs nowhere else in a rendering
SixChunks ==
    <<RankedChunk(Chunk(Chars("f"), 1, 1, Rep("!", 501), Chars("H")), 6000000,
                  <<Chars("x")>>),
      RankedChunk(Chunk(Chars("f"), 2, 2, Rep("@", 500), None), 5000000,
                  <<Chars("x")>>),
      RankedChunk(Chunk(Chars("g"), 1, 1, Chars("$"), <<>>), 4000000,
                  <<Chars("x")>>),
      RankedChunk(Chunk(Chars("g"), 2, 2, Chars("%"), None), 3000000,
                  <<Chars("x")>>),
      RankedChunk(Chunk(Chars("g"), 3, 3, Chars("^"), None), 2000000,
                  <<Chars("x")>>),
      RankedChunk(Chunk(Chars("g"), 4, 4, Chars("&"), None), 1000000,
                  <<Chars("x")>>)>>

RankedListPool == {<<>>, OneChunk, SixChunks}

\* a ranked list of chunks of the given contents
RankedOf(contents) ==
    [i \in 1..Len(contents) |->
        RankedChunk(Chunk(Chars("f"), i, i, contents[i], None), 1000000,
                    <<Chars("x")>>)]

\* ranked lists that are alike: one text split in two chunks at two places,
\* and one chunk of 101 characters with two endings
AlikeListPool ==
    { RankedOf(<<Chars("ab"), Chars("c")>>),
      RankedOf(<<Chars("a"), Chars("bc")>>),
      RankedOf(<<Rep("!", 100) \o Chars("y")>>),
      RankedOf(<<Rep("!", 100) \o Chars("z")>>) }

\* what the backend does in a call: there is no API key, the anthropic
\* package is missing, messages.create raises, or it returns a response
\* with no text, with blank text or with a text
BackendOutcomes ==
    {[kind |-> "no_api_key", text |-> None],
     [kind |-> "no_package", text |-> None],
     [kind |-> "error", text |-> None],
     [kind |-> "ok", text |-> None],
     [kind |-> "ok", text |-> Chars(" \n")],
     [kind |-> "ok", text |-> Chars(" r\n")]}

NoArgs == [query |-> <<>>, ranked_chunks |-> <<>>, use_cache |-> FALSE]

NoLocals ==
    [query_type |-> <<>>, token_budget |-> 0, cache_key |-> <<>>,
     entry |-> NoEntry, result_content |-> <<>>]

NoBegin ==
    [cache |-> EmptyCache, had_stored |-> FALSE, stored_entry |-> NoEntry,
     backend_calls |-> 0, time |-> 0, backend_failed |-> FALSE]

DistillOff ==
    /\ cache = EmptyCache
    /\ now = 0
    /\ ticks = 0
    /\ client = FALSE
    /\ backend_calls = 0
    /\ d_calls = 0
    /\ d_pc = [t \in Threads |-> "off"]
    /\ d_args = [t \in Threads |-> NoArgs]
    /\ d_local = [t \in Threads |-> NoLocals]
    /\ d_result = [t \in Threads |-> None]
    /\ stored = EmptyCache
    /\ d_begin = [t \in Threads |-> NoBegin]

DistillInit ==
    /\ cache = EmptyCache
    /\ now = 0
    /\ ticks = 0
    /\ client = FALSE
    /\ backend_calls = 0
    /\ d_calls = 0
    /\ d_pc = [t \in Threads |-> "idle"]
    /\ d_args = [t \in Threads |-> NoArgs]
    /\ d_local = [t \in Threads |-> NoLocals]
    /\ d_result = [t \in Threads |-> None]
    /\ stored = EmptyCache
    /\ d_begin = [t \in Threads |-> NoBegin]

\* the fixed message with the default budget
no_chunks_result_default ==
    DistillationResult(
        Chars("No relevant information found in knowledge base."),
        Chars("simple"), default_budget, FALSE)

\* distill, lines 149-155: what a call without ranked chunks returns
no_chunks_result ==
    DistillationResult(
        Chars("No relevant information found in knowledge base."),
        Chars("simple"), 0, FALSE)

\* the call returns result
Returns(t, result) ==
    /\ d_pc' = [d_pc EXCEPT ![t] = "returned"]
    /\ d_result' = [d_result EXCEPT ![t] = result]

\* the call raises KeyError
RaisesKeyError(t) ==
    /\ d_pc' = [d_pc EXCEPT ![t] = "raised"]
    /\ d_result' = [d_result EXCEPT ![t] = <<"KeyError">>]

\* distill, lines 149-166: thread t calls distill(query, ranked_chunks,
\* use_cache)
DistillBegin(t, queries, lists, max_calls) ==
    /\ d_pc[t] = "idle"
    /\ d_calls < max_calls
    /\ d_calls' = d_calls + 1
    /\ \E query \in queries, ranked_chunks \in lists, use_cache \in BOOLEAN :
          LET query_type == haiku_classify_query(query)
              token_budget == get_token_budget(query_type, HaikuConfig)
              cache_key == get_cache_key(query, ranked_chunks)
          IN  /\ d_args' = [d_args EXCEPT ![t] =
                               [query |-> query,
                                ranked_chunks |-> ranked_chunks,
                                use_cache |-> use_cache]]
              /\ d_begin' = [d_begin EXCEPT ![t] =
                                [cache |-> cache,
                                 had_stored |->
                                     <<query, ranked_chunks>> \in DOMAIN stored,
                                 stored_entry |->
                                     IF <<query, ranked_chunks>> \in DOMAIN stored
                                     THEN stored[<<query, ranked_chunks>>]
                                     ELSE NoEntry,
                                 backend_calls |-> backend_calls,
                                 time |-> now,
                                 backend_failed |-> FALSE]]
              /\ IF Len(ranked_chunks) = 0
                 THEN /\ Returns(t, no_chunks_result)
                      /\ d_local' = [d_local EXCEPT ![t] = NoLocals]
                 ELSE /\ d_pc' = [d_pc EXCEPT ![t] =
                                     IF use_cache THEN "check_in"
                                     ELSE "backend"]
                      /\ d_result' = [d_result EXCEPT ![t] = None]
                      /\ d_local' = [d_local EXCEPT ![t] =
                                        [query_type |-> query_type,
                                         token_budget |-> token_budget,
                                         cache_key |-> cache_key,
                                         entry |-> NoEntry,
                                         result_content |-> <<>>]]
    /\ UNCHANGED <<cache, now, ticks, client, backend_calls, stored>>

\* _check_cache, line 41: if key in _response_cache
CheckIn(t) ==
    /\ d_pc[t] = "check_in"
    /\ d_pc' = [d_pc EXCEPT ![t] =
                   IF d_local[t].cache_key \in DOMAIN cache
                   THEN "check_get" ELSE "backend"]
    /\ UNCHANGED <<cache, now, ticks, client, backend_calls, d_calls, d_args,
                   d_local, d_result, stored, d_begin>>

\* _check_cache, line 42: content, timestamp = _response_cache[key]
CheckGet(t) ==
    /\ d_pc[t] = "check_get"
    /\ IF d_local[t].cache_key \in DOMAIN cache
       THEN /\ d_local' = [d_local EXCEPT
                              ![t].entry = cache[d_local[t].cache_key]]
            /\ d_pc' = [d_pc EXCEPT ![t] = "check_time"]
            /\ UNCHANGED d_result
       ELSE /\ RaisesKeyError(t)
            /\ UNCHANGED d_local
    /\ UNCHANGED <<cache, now, ticks, client, backend_calls, d_calls, d_args,
                   stored, d_begin>>

\* _check_cache, lines 43-45, and distill, lines 167-174: the clock is read;
\* a fresh, non-empty response is returned as cached
CheckTime(t) ==
    /\ d_pc[t] = "check_time"
    /\ d_begin' = [d_begin EXCEPT ![t].time = now]
    /\ IF IsFresh(now, d_local[t].entry.timestamp)
       THEN IF Len(d_local[t].entry.content) > 0
            THEN Returns(t, DistillationResult(d_local[t].entry.content,
                                d_local[t].query_type,
                                d_local[t].token_budget, TRUE))
            ELSE /\ d_pc' = [d_pc EXCEPT ![t] = "backend"]
                 /\ UNCHANGED d_result
       ELSE /\ d_pc' = [d_pc EXCEPT ![t] = "check_del"]
            /\ UNCHANGED d_result
    /\ UNCHANGED <<cache, now, ticks, client, backend_calls, d_calls, d_args,
                   d_local, stored>>

\* _check_cache, line 46: del _response_cache[key]
CheckDel(t) ==
    /\ d_pc[t] = "check_del"
    /\ IF d_local[t].cache_key \in DOMAIN cache
       THEN /\ cache' = CacheDel(cache, d_local[t].cache_key)
            /\ d_pc' = [d_pc EXCEPT ![t] = "backend"]
            /\ UNCHANGED d_result
       ELSE /\ RaisesKeyError(t)
            /\ UNCHANGED cache
    /\ UNCHANGED <<now, ticks, client, backend_calls, d_calls, d_args,
                   d_local, stored, d_begin>>

\* distill, lines 215-247: _get_client and messages.create; any exception
\* gives the fallback response
Backend(t) ==
    /\ d_pc[t] = "backend"
    /\ \E outcome \in BackendOutcomes :
          /\ client => outcome.kind \notin {"no_api_key", "no_package"}
          /\ client' = (outcome.kind \notin {"no_api_key", "no_package"})
          /\ backend_calls' =
                IF outcome.kind \in {"ok", "error"} THEN backend_calls + 1
                ELSE backend_calls
          /\ IF outcome.kind = "ok"
             THEN /\ d_local' = [d_local EXCEPT ![t].result_content =
                                    result_content_of(outcome.text)]
                  /\ UNCHANGED d_begin
                  /\ IF d_args[t].use_cache
                     THEN /\ d_pc' = [d_pc EXCEPT ![t] = "store"]
                          /\ UNCHANGED d_result
                     ELSE Returns(t, DistillationResult(
                              result_content_of(outcome.text),
                              d_local[t].query_type,
                              d_local[t].token_budget, FALSE))
             ELSE /\ Returns(t, fallback_response(d_args[t].ranked_chunks,
                                    d_local[t].query_type,
                                    d_local[t].token_budget))
                  /\ d_begin' = [d_begin EXCEPT ![t].backend_failed = TRUE]
                  /\ UNCHANGED d_local
    /\ UNCHANGED <<cache, now, ticks, d_calls, d_args, stored>>

\* distill, lines 234-242: _store_cache(cache_key, result_content)
Store(t) ==
    /\ d_pc[t] = "store"
    /\ cache' = CachePut(cache, d_local[t].cache_key,
                         Entry(d_local[t].result_content, now))
    /\ stored' = CachePut(stored, <<d_args[t].query, d_args[t].ranked_chunks>>,
                          Entry(d_local[t].result_content, now))
    /\ Returns(t, DistillationResult(d_local[t].result_content,
                      d_local[t].query_type, d_local[t].token_budget, FALSE))
    /\ UNCHANGED <<now, ticks, client, backend_calls, d_calls, d_args,
                   d_local, d_begin>>

\* the caller has the result, or the exception, of the call
DistillEnd(t) ==
    /\ d_pc[t] \in {"returned", "raised"}
    /\ d_pc' = [d_pc EXCEPT ![t] = "idle"]
    /\ d_args' = [d_args EXCEPT ![t] = NoArgs]
    /\ d_local' = [d_local EXCEPT ![t] = NoLocals]
    /\ d_result' = [d_result EXCEPT ![t] = None]
    /\ d_begin' = [d_begin EXCEPT ![t] = NoBegin]
    /\ UNCHANGED <<cache, now, ticks, client, backend_calls, d_calls, stored>>

\* time passes
Tick ==
    /\ ticks < MaxTicks
    /\ ticks' = ticks + 1
    /\ \E step \in ClockSteps : now' = now + step
    /\ UNCHANGED <<cache, client, backend_calls, d_calls, d_pc, d_args,
                   d_local, d_result, stored, d_begin>>

\* clear_cache()
ClearCache ==
    /\ cache' = EmptyCache
    /\ stored' = EmptyCache
    /\ UNCHANGED <<now, ticks, client, backend_calls, d_calls, d_pc, d_args,
                   d_local, d_result, d_begin>>

(***************************************************************************)
(* WSL share paths (search.py)                                             *)
(***************************************************************************)

\* the two prefixes: \\wsl.localhost\ and \\wsl$\
WslLocalhostPrefix == Chars("\\\\wsl.localhost\\")
WslDollarPrefix == Chars("\\\\wsl$\\")

\* str.startswith
StartsWith(s, prefix) == Len(s) >= Len(prefix) /\ Take(s, Len(prefix)) = prefix

\* is_wsl_path, on str(path)
is_wsl_path(path_str) ==
    StartsWith(path_str, WslLocalhostPrefix)
        \/ StartsWith(path_str, WslDollarPrefix)

\* s.split(sep, 1) for a separator of one character
SplitOnce(s, sep) ==
    IF \E i \in 1..Len(s) : s[i] = sep
    THEN LET i == CHOOSE j \in 1..Len(s) :
                      s[j] = sep /\ \A k \in 1..(j - 1) : s[k] # sep
         IN  <<Take(s, i - 1), Drop(s, i)>>
    ELSE <<s>>

\* s.replace(old, new) for single characters
Replace(s, old, new) == [i \in 1..Len(s) |-> IF s[i] = old THEN new ELSE s[i]]

\* the remainder with its separators rewritten, the distribution name kept
linux_path_keep_distro(remainder) ==
    <<"/">> \o Replace(remainder, "\\", "/")

\* wsl_path_to_linux, lines 37-44: the remainder without the distribution
\* name, its separators rewritten
linux_path(remainder) ==
    LET parts == SplitOnce(remainder, "\\")
    IN  IF Len(parts) > 1 THEN <<"/">> \o Replace(parts[2], "\\", "/")
        ELSE <<"/">>

\* wsl_path_to_linux, on str(path)
wsl_path_to_linux(path_str) ==
    IF StartsWith(path_str, WslLocalhostPrefix)
    THEN linux_path(Drop(path_str, Len(WslLocalhostPrefix)))
    ELSE IF StartsWith(path_str, WslDollarPrefix)
    THEN linux_path(Drop(path_str, Len(WslDollarPrefix)))
    ELSE path_str

(***************************************************************************)
(* KnowledgeSearch.extract_keywords and search (search.py)                 *)
(***************************************************************************)

STOP_WORDS ==
    {Chars("a"), Chars("an"), Chars("the"), Chars("is"), Chars("are"),
     Chars("was"), Chars("were"), Chars("be"), Chars("been"), Chars("being"),
     Chars("have"), Chars("has"), Chars("had"), Chars("do"), Chars("does"),
     Chars("did"), Chars("will"), Chars("would"), Chars("could"),
     Chars("should"), Chars("may"), Chars("might"), Chars("must"),
     Chars("shall"), Chars("can"), Chars("need"), Chars("dare"),
     Chars("ought"), Chars("used"), Chars("to"), Chars("of"), Chars("in"),
     Chars("for"), Chars("on"), Chars("with"), Chars("at"), Chars("by"),
     Chars("from"), Chars("as"), Chars("into"), Chars("through"),
     Chars("during"), Chars("before"), Chars("after"), Chars("above"),
     Chars("below"), Chars("between"), Chars("under"), Chars("again"),
     Chars("further"), Chars("then"), Chars("once"), Chars("here"),
     Chars("there"), Chars("when"), Chars("where"), Chars("why"),
     Chars("how"), Chars("all"), Chars("each"), Chars("few"), Chars("more"),
     Chars("most"), Chars("other"), Chars("some"), Chars("such"),
     Chars("no"), Chars("nor"), Chars("not"), Chars("only"), Chars("own"),
     Chars("same"), Chars("so"), Chars("than"), Chars("too"), Chars("very"),
     Chars("just"), Chars("also"), Chars("now"), Chars("i"), Chars("me"),
     Chars("my"), Chars("myself"), Chars("we"), Chars("our"), Chars("ours"),
     Chars("you"), Chars("your"), Chars("yours"), Chars("he"), Chars("him"),
     Chars("his"), Chars("she"), Chars("her"), Chars("hers"), Chars("it"),
     Chars("its"), Chars("they"), Chars("them"), Chars("their"),
     Chars("what"), Chars("which"), Chars("who"), Chars("whom"),
     Chars("this"), Chars("that"), Chars("these"), Chars("those"),
     Chars("am")}

\* the maximal runs of word characters of str, in order
RECURSIVE WordRuns(_, _, _)
WordRuns(str, i, cur) ==
    LET run == IF Len(cur) > 0 THEN <<cur>> ELSE <<>>
    IN  IF i > Len(str) THEN run
        ELSE IF str[i] \in WordChars
             THEN WordRuns(str, i + 1, Append(cur, str[i]))
        ELSE run \o WordRuns(str, i + 1, <<>>)

\* re.findall(r"\b[a-zA-Z_][a-zA-Z0-9_]*\b", str): the runs of word
\* characters that begin with a letter or an underscore
Tokens(str) ==
    SelectSeq(WordRuns(str, 1, <<>>), LAMBDA w : w[1] \in Letters \cup {"_"})

\* the elements of a list without repetition, each new one put in front
RECURSIVE UniqueReversed(_)
UniqueReversed(list) ==
    IF Len(list) = 0 THEN <<>>
    ELSE LET front == UniqueReversed(SubSeq(list, 1, Len(list) - 1))
             last == list[Len(list)]
         IN  IF \E i \in 1..Len(front) : front[i] = last THEN front
             ELSE <<last>> \o front

\* extract_keywords, lines 137-144, and the keys of results_by_file: the
\* elements of a list without repetition, in order of first occurrence
RECURSIVE Unique(_)
Unique(list) ==
    IF Len(list) = 0 THEN <<>>
    ELSE LET front == Unique(SubSeq(list, 1, Len(list) - 1))
             last == list[Len(list)]
         IN  IF \E i \in 1..Len(front) : front[i] = last THEN front
             ELSE Append(front, last)

\* the words of one or two characters are kept
extract_keywords_keep_short(query) ==
    Unique(SelectSeq(Tokens(Lower(query)),
                     LAMBDA word : word \notin STOP_WORDS /\ Len(word) > 0))

\* KnowledgeSearch.extract_keywords
extract_keywords(query) ==
    Unique(SelectSeq(Tokens(Lower(query)),
                     LAMBDA word : word \notin STOP_WORDS /\ Len(word) > 2))

\* SearchConfig's defaults
search_max_results == 50
search_top_chunks == 10

\* KnowledgeSearch.search
search(query, rf, df, use_rg, oc, fwp) ==
    LET kws == extract_keywords(query)
    IN  IF Len(kws) = 0
        THEN [status |-> "return", results |-> <<>>, calls |-> <<>>]
        ELSE ripgrep_search(rf, df, use_rg, kws, search_max_results, oc, fwp)

(***************************************************************************)
(* Chunker.chunk_from_results (chunker.py) and Ranker.deduplicate          *)
(* (ranker.py)                                                             *)
(***************************************************************************)

\* the file at a path of the knowledge base
ReadFile(path, rf, df) ==
    IF path = root_file_path /\ rf # None
    THEN [readable |-> TRUE, data |-> rf]
    ELSE IF \E i \in 1..Len(df.files) :
                path = docs_folder_path \o <<"/">> \o df.files[i].name
    THEN LET i == CHOOSE j \in 1..Len(df.files) :
                      path = docs_folder_path \o <<"/">> \o df.files[j].name
         IN  [readable |-> TRUE, data |-> df.files[i].content]
    ELSE Unreadable

\* each chunk once for every one of the lines it holds: the loop over
\* result_lines without its break
RECURSIVE ChunksWithHitsPerHit(_, _)
ChunksWithHitsPerHit(file_chunks, lines) ==
    IF Len(file_chunks) = 0 THEN <<>>
    ELSE LET c == file_chunks[1]
             held == {n \in lines : c.start_line <= n /\ n <= c.end_line}
         IN  [i \in 1..Cardinality(held) |-> c]
             \o ChunksWithHitsPerHit(Tail(file_chunks), lines)

\* chunk_from_results, lines 300-306: the chunks of file_chunks that hold
\* one of the lines, each once
ChunksWithHits(file_chunks, lines) ==
    SelectSeq(file_chunks,
              LAMBDA c : \E n \in lines : c.start_line <= n /\ n <= c.end_line)

\* the loop of chunk_from_results over results_by_file, from the i-th file
RECURSIVE ChunksOfFiles(_, _, _, _, _)
ChunksOfFiles(paths, i, res, rf, df) ==
    IF i > Len(paths) THEN <<>>
    ELSE LET result_lines ==
                 {res[r].line_number :
                     r \in {q \in 1..Len(res) : res[q].file_path = paths[i]}}
         IN  ChunksWithHits(chunk_file(paths[i], ReadFile(paths[i], rf, df)),
                            result_lines)
             \o ChunksOfFiles(paths, i + 1, res, rf, df)

\* Chunker.chunk_from_results
chunk_from_results(res, rf, df) ==
    ChunksOfFiles(Unique([r \in 1..Len(res) |-> res[r].file_path]), 1, res,
                  rf, df)

\* the first 199 characters of the content
content_hash_short(content) == Take(content, 199)

\* deduplicate, line 162: hash(rc.chunk.content[:200]).  hash() is taken as
\* one-to-one, so the hash is the text that is hashed.
content_hash(content) == Take(content, 200)

\* Ranker.deduplicate: the first chunk of each content hash
RECURSIVE deduplicate(_)
deduplicate(ranked_chunks) ==
    IF Len(ranked_chunks) = 0 THEN <<>>
    ELSE LET front == deduplicate(SubSeq(ranked_chunks, 1,
                                         Len(ranked_chunks) - 1))
             last == ranked_chunks[Len(ranked_chunks)]
         IN  IF \E i \in 1..Len(front) :
                    content_hash(front[i].chunk.content)
                        = content_hash(last.chunk.content)
             THEN front
             ELSE Append(front, last)

(***************************************************************************)
(* The server (server.py)                                                  *)
(***************************************************************************)

\* server.classify_query
server_classify_query(query) ==
    LET query_lower == Lower(query)
        code_keywords ==
            <<Chars("example"), Chars("code"), Chars("pattern"),
              Chars("how to"), Chars("implement"), Chars("snippet"),
              Chars("sample"), Chars("template"), Chars("show me")>>
        complex_keywords ==
            <<Chars("explain"), Chars("architecture"), Chars("design"),
              Chars("complex"), Chars("overview"), Chars("understand"),
              Chars("describe"), Chars("analyze"), Chars("compare")>>
    IN  IF AnyIn(code_keywords, query_lower) THEN Chars("code_example")
        ELSE IF AnyIn(complex_keywords, query_lower) THEN Chars("complex")
        ELSE Chars("simple")

\* format_chunks_for_response: the part of the i-th ranked chunk
response_part(i, rc) ==
    Chars("**Source ") \o Decimal(i) \o Chars(":** ") \o <<Backtick>>
    \o rc.chunk.file_path \o <<Backtick>>
    \o (IF Truthy(rc.chunk.header) THEN Chars(" - ") \o rc.chunk.header
        ELSE <<>>)
    \o Chars(" (lines ") \o Decimal(rc.chunk.start_line) \o <<"-">>
    \o Decimal(rc.chunk.end_line) \o <<")">>
    \o (IF Len(rc.matched_keywords) > 0
        THEN Chars("\n*Matched: ") \o Join(Chars(", "), rc.matched_keywords)
             \o <<"*">>
        ELSE <<>>)
    \o Chars("\n\n") \o rc.chunk.content

\* the parts joined, also when there is none
format_chunks_for_response_unguarded(ranked_chunks, query_type) ==
    Join(Chars("\n\n---\n\n"),
         [i \in 1..Len(ranked_chunks) |-> response_part(i, ranked_chunks[i])])

\* server.format_chunks_for_response
format_chunks_for_response(ranked_chunks, query_type) ==
    IF Len(ranked_chunks) = 0
    THEN Chars("No relevant information found in knowledge base.")
    ELSE Join(Chars("\n\n---\n\n"),
              [i \in 1..Len(ranked_chunks) |-> response_part(i, ranked_chunks[i])])

(***************************************************************************)
(* Asking: a knowledge base, the tools' behaviour, and one call of         *)
(* ask_knowledge_base                                                      *)
(***************************************************************************)

AskQueryPool == {Chars("How to opt"), Chars("the of")}

AskContextPool == {None, Chars("def")}

\* contents of the root document; the second makes a tool that leaves the
\* path out print a line that parses as a hit in a file "1:q"; the third is
\* a section whose heading and text hold a keyword three times in all
AskRootFilePool ==
    {Chars("opt a\nx"), Chars("q:1:opt"), Chars("# opt\nopt")}

AskDocFilePool ==
    { [name |-> Chars("A.md"), content |-> Chars("# T\nopt\n# U\nx")],
      [name |-> Chars("B.py"), content |-> Chars("def f(\nopt")] }

AskListings ==
    {fs \in ListsUpTo(AskDocFilePool, MaxDocFiles) :
        \A i, j \in 1..Len(fs) : fs[i].name = fs[j].name => i = j}

\* no invocation was made
NoTools == [tool \in {"rg", "grep"} |->
               [root \in {"root_file", "docs_folder"} |-> "none"]]

AskOff ==
    /\ a_pc = "off"
    /\ a_initialized = FALSE
    /\ a_query = <<>>
    /\ a_context = None
    /\ a_stage = "none"
    /\ a_ranked = <<>>
    /\ a_distilled = <<>>
    /\ a_response = <<>>
    /\ a_tools = NoTools

\* the knowledge base and the tools are those of the search; no separate
\* call of ripgrep_search is made
AskInit ==
    /\ a_pc = "ready"
    /\ a_initialized \in BOOLEAN
    /\ a_query \in AskQueryPool
    /\ a_context \in AskContextPool
    /\ a_stage = "none"
    /\ a_ranked = <<>>
    /\ a_distilled = <<>>
    /\ a_response = <<>>
    /\ a_tools = NoTools
    /\ s_pc = "off"
    /\ root_file \in {None} \cup AskRootFilePool
    /\ docs_folder \in {NoFolder} \cup {Folder(fs) : fs \in AskListings}
    /\ use_ripgrep \in BOOLEAN
    /\ prints_path \in BOOLEAN
    /\ s_keywords = <<>>
    /\ max_results = 0
    /\ invocations = <<>>
    /\ results = <<>>

\* the call ends at stage, with the text response
AskReturns(stage, ranked_chunks, response) ==
    /\ a_pc' = "returned"
    /\ a_stage' = stage
    /\ a_ranked' = ranked_chunks
    /\ a_response' = response

\* the call raises RuntimeError
AskRaises(stage) ==
    /\ a_pc' = "raised"
    /\ a_stage' = stage
    /\ a_ranked' = <<>>
    /\ a_response' = <<"RuntimeError">>

\* ask_knowledge_base(a_query, a_context).  It makes no call of
\* HaikuDistiller.distill: a_distilled stays as it is.
AskKnowledgeBase ==
    /\ a_pc = "ready"
    /\ \E oc \in ToolOutcomes :
          /\ a_tools' = oc
          /\ IF ~a_initialized THEN AskRaises("get_config")
             ELSE IF ~has_knowledge_base(root_file, docs_folder)
             THEN AskReturns("no_knowledge_base", <<>>,
                      Chars("No knowledge base found. Expected CLAUDE.md in workspace root and/or .claude/ folder with documentation."))
             ELSE
             LET search_query ==
                     IF Truthy(a_context) THEN a_query \o <<" ">> \o a_context
                     ELSE a_query
                 found == search(search_query, root_file, docs_folder,
                                 use_ripgrep, oc, prints_path)
                 chs == chunk_from_results(found.results, root_file, docs_folder)
                 kws == extract_keywords(search_query)
                 ranked_chunks == deduplicate(rank(chs, kws, search_top_chunks))
                 query_type == server_classify_query(a_query)
             IN  IF found.status = "RuntimeError" THEN AskRaises("search")
                 ELSE IF Len(found.results) = 0
                 THEN AskReturns("no_results", <<>>,
                          Chars("No relevant information found for query: ")
                              \o a_query)
                 ELSE IF Len(chs) = 0
                 THEN AskReturns("no_chunks", <<>>,
                          Chars("No relevant content found for query: ")
                              \o a_query)
                 ELSE AskReturns("formatted", ranked_chunks,
                          format_chunks_for_response(ranked_chunks, query_type))
    /\ UNCHANGED <<a_initialized, a_query, a_context, a_distilled>>

(***************************************************************************)
(* Building chunks from results: a documentation folder, a list of search  *)
(* results, and one call of chunk_from_results, one file at a time         *)
(***************************************************************************)

\* most results in the argument
MaxHits == 3

\* a markdown file of two sections, and a code file whose first line is in
\* no function
FromDocFiles ==
    << [name |-> Chars("A.md"), content |-> Chars("# T\nopt\n# U\nx")],
       [name |-> Chars("B.py"), content |-> Chars("x\ndef f(\nopt")] >>

\* the same two files with other contents: a markdown file that begins with
\* a line under no heading and ends with a heading, and a code file of two
\* functions
FromDocFilesLate ==
    << [name |-> Chars("A.md"), content |-> Chars("x\n# T\nopt\n# U")],
       [name |-> Chars("B.py"), content |-> Chars("def f(\nopt\ndef g(")] >>

\* the two files, and a path at which there is no file
FromPathPool ==
    { docs_folder_path \o Chars("/A.md"), docs_folder_path \o Chars("/B.py"),
      Chars("q") }

FromResultPool ==
    { SearchResult(path, n, Chars("opt"), Chars("opt")) :
          path \in FromPathPool, n \in 1..3 }

FromOff ==
    /\ f_pc = "off"
    /\ f_results = <<>>
    /\ f_by_file = <<>>
    /\ f_i = 1
    /\ f_chunks = <<>>
    /\ f_segmented = <<>>

FromInit ==
    /\ f_pc = "ready"
    /\ f_results \in ListsUpTo(FromResultPool, MaxHits)
    /\ f_by_file = <<>>
    /\ f_i = 1
    /\ f_chunks = <<>>
    /\ f_segmented = <<>>
    /\ s_pc = "off"
    /\ root_file = None
    /\ docs_folder \in {Folder(FromDocFiles), Folder(FromDocFilesLate)}
    /\ use_ripgrep = FALSE
    /\ prints_path = FALSE
    /\ s_keywords = <<>>
    /\ max_results = 0
    /\ invocations = <<>>
    /\ results = <<>>

\* chunk_from_results, lines 283-292: no results, or the results grouped by
\* file in a dictionary, whose keys keep the order of insertion
GroupResults ==
    /\ f_pc = "ready"
    /\ IF Len(f_results) = 0
       THEN /\ f_pc' = "returned"
            /\ f_by_file' = <<>>
       ELSE /\ f_pc' = "files"
            /\ f_by_file' =
                  Unique([r \in 1..Len(f_results) |-> f_results[r].file_path])
    /\ UNCHANGED <<f_results, f_i, f_chunks, f_segmented>>

\* chunk_from_results, lines 295-306: one turn of the loop over
\* results_by_file
ChunkNextFile ==
    /\ f_pc = "files"
    /\ f_i <= Len(f_by_file)
    /\ LET file_path == f_by_file[f_i]
           file_chunks ==
               chunk_file(file_path, ReadFile(file_path, root_file, docs_folder))
           result_lines ==
               {f_results[r].line_number :
                   r \in {q \in 1..Len(f_results) :
                             f_results[q].file_path = file_path}}
       IN  /\ f_chunks' = f_chunks \o ChunksWithHits(file_chunks, result_lines)
           /\ f_segmented' = Append(f_segmented, file_path)
    /\ f_i' = f_i + 1
    /\ UNCHANGED <<f_pc, f_results, f_by_file>>

\* chunk_from_results, line 308: return chunks
FromResultsReturn ==
    /\ f_pc = "files"
    /\ f_i > Len(f_by_file)
    /\ f_pc' = "returned"
    /\ UNCHANGED <<f_results, f_by_file, f_i, f_chunks, f_segmented>>

\* chunks for rank and deduplicate: one section found in two files, a
\* section that holds the same keyword and another text, one without it
TopChunkPool ==
    { Chunk("f", 1, 1, <<"a">>, None),
      Chunk("g", 1, 1, <<"a">>, None),
      Chunk("f", 2, 2, <<"a", "b">>, None),
      Chunk("g", 2, 2, <<"c">>, None) }

\* ask_knowledge_base, lines 159-161: the arguments of rank
RankDedupInit ==
    /\ rk_pc = "ready"
    /\ chunks \in ListsUpTo(TopChunkPool, MaxChunks)
    /\ keywords \in ListsUpTo(RankKeywordPool, MaxKeywords)
    /\ top_n \in 1..MaxTopN
    /\ scored = <<>>
    /\ ranked = <<>>
    /\ rk_deduplicated = <<>>

\* ask_knowledge_base, line 161: ranked_chunks = ranker.deduplicate(
\* ranked_chunks), on the list rank returned
DeduplicateRanked ==
    /\ rk_pc = "ranked"
    /\ rk_pc' = "deduplicated"
    /\ rk_deduplicated' = deduplicate(ranked)
    /\ UNCHANGED <<chunks, keywords, top_n, scored, ranked>>

(***************************************************************************)
(* Deduplicating: a ranked list, and one call of Ranker.deduplicate        *)
(***************************************************************************)

\* most chunks in the argument
MaxRanked == 3

\* chunks whose contents agree on the first 200 characters and differ after
\* them, one that differs from these at the 200th character only, and two
\* different chunks of one short content
DedupChunkPool ==
    { RankedChunk(Chunk(Chars("f"), 1, 1, Rep("a", 200) \o Chars("b"), None),
                  3000000, <<Chars("a")>>),
      RankedChunk(Chunk(Chars("g"), 1, 1, Rep("a", 200) \o Chars("c"), None),
                  3000000, <<Chars("a")>>),
      RankedChunk(Chunk(Chars("f"), 5, 5, Rep("a", 199) \o Chars("b"), None),
                  2000000, <<Chars("a")>>),
      RankedChunk(Chunk(Chars("f"), 9, 9, Chars("s"), None),
                  2000000, <<Chars("s")>>),
      RankedChunk(Chunk(Chars("g"), 9, 9, Chars("s"), Chars("H")),
                  1000000, <<Chars("s")>>) }

\* the argument is a list that rank returned: by descending score
DedupListPool ==
    {rcs \in ListsUpTo(DedupChunkPool, MaxRanked) :
        \A i \in 1..(Len(rcs) - 1) : rcs[i].score >= rcs[i + 1].score}

DedupOff ==
    /\ u_pc = "off"
    /\ u_ranked = <<>>
    /\ u_result = <<>>

DedupInit ==
    /\ u_pc = "ready"
    /\ u_ranked \in DedupListPool
    /\ u_result = <<>>

\* ranker.deduplicate(u_ranked)
Deduplicate ==
    /\ u_pc = "ready"
    /\ u_pc' = "returned"
    /\ u_result' = deduplicate(u_ranked)
    /\ UNCHANGED u_ranked

(***************************************************************************)
(* Classifying: a query, and one call of haiku_client.classify_query       *)
(***************************************************************************)

\* most fragments in a query
MaxFragments == 3

\* words with and without indicators, in upper and lower case; "how" then
\* "to" make the indicator "how to", "Encoder" holds "code" inside a word
FragmentPool ==
    { Chars("Explain"), Chars("Encoder"), Chars("how"), Chars("to"),
      Chars("DESIGN"), Chars("Write"), Chars("x"), Chars("difference") }

ClassifyQueryPool ==
    {Join(<<" ">>, fs) : fs \in ListsUpTo(FragmentPool, MaxFragments)}

ClassifyOff ==
    /\ q_pc = "off"
    /\ q_query = <<>>
    /\ q_type = <<>>
    /\ q_server_type = <<>>

ClassifyInit ==
    /\ q_pc = "ready"
    /\ q_query \in ClassifyQueryPool
    /\ q_type = <<>>
    /\ q_server_type = <<>>

\* classify_query(q_query)
ClassifyQuery ==
    /\ q_pc = "ready"
    /\ q_pc' = "returned"
    /\ q_type' = haiku_classify_query(q_query)
    /\ UNCHANGED <<q_query, q_server_type>>

\* ask_knowledge_base, line 164: query_type = classify_query(query), the
\* classifier of server.py on the same query
ServerClassifyQuery ==
    /\ q_pc = "returned"
    /\ q_pc' = "both"
    /\ q_server_type' = server_classify_query(q_query)
    /\ UNCHANGED <<q_query, q_type>>

(***************************************************************************)
(* Extracting keywords: a query, one call of extract_keywords on it and    *)
(* one on its keywords joined by spaces                                    *)
(***************************************************************************)

\* most words in a query
MaxWords == 3

\* a stop word in capitals, one word in two cases, a stop word of three
\* letters, a short word, and words with digits and underscores
WordPool ==
    { Chars("The"), Chars("opt"), Chars("Opt"), Chars("its"), Chars("ab"),
      Chars("x1y"), Chars("1ab"), Chars("_id") }

\* what stands between the words of a query; an underscore makes one token
\* of two words
SeparatorPool == { Chars(" "), Chars(", "), Chars("_") }

KeywordQueryPool ==
    {Join(sep, ws) : sep \in SeparatorPool, ws \in ListsUpTo(WordPool, MaxWords)}

KeywordOff ==
    /\ k_pc = "off"
    /\ k_query = <<>>
    /\ k_keywords = <<>>
    /\ k_again = <<>>

KeywordInit ==
    /\ k_pc = "ready"
    /\ k_query \in KeywordQueryPool
    /\ k_keywords = <<>>
    /\ k_again = <<>>

\* search.extract_keywords(k_query)
ExtractKeywords ==
    /\ k_pc = "ready"
    /\ k_pc' = "extracted"
    /\ k_keywords' = extract_keywords(k_query)
    /\ UNCHANGED <<k_query, k_again>>

\* search.extract_keywords(" ".join(k_keywords))
ExtractAgain ==
    /\ k_pc = "extracted"
    /\ k_pc' = "again"
    /\ k_again' = extract_keywords(Join(<<" ">>, k_keywords))
    /\ UNCHANGED <<k_query, k_keywords>>

(***************************************************************************)
(* Converting paths: a path, and one call of wsl_path_to_linux             *)
(***************************************************************************)

\* most segments after the prefix
MaxSegments == 3

\* the two share prefixes, and beginnings that are none: a prefix without
\* its last separator, one in capitals, a rooted, a relative and a drive path
WslPrefixPool ==
    { WslLocalhostPrefix, WslDollarPrefix, Chars("\\\\wsl.localhost"),
      Chars("\\\\WSL$\\"), Chars("/"), <<>>, Chars("C:\\") }

\* a distribution name or a directory, an empty segment (two separators in
\* a row, or one at the end), and a segment with a slash
WslSegmentPool == { Chars("Ubuntu"), Chars("home"), <<>>, Chars("a/b") }

WslPathPool ==
    {prefix \o Join(<<"\\">>, segs) :
        prefix \in WslPrefixPool, segs \in ListsUpTo(WslSegmentPool, MaxSegments)}

WslOff ==
    /\ w_pc = "off"
    /\ w_path = <<>>
    /\ w_linux = <<>>

WslInit ==
    /\ w_pc = "ready"
    /\ w_path \in WslPathPool
    /\ w_linux = <<>>

\* wsl_path_to_linux(w_path)
WslPathToLinux ==
    /\ w_pc = "ready"
    /\ w_pc' = "returned"
    /\ w_linux' = wsl_path_to_linux(w_path)
    /\ UNCHANGED w_path

(***************************************************************************)
(* Specifications: one per component, the other components switched off    *)
(***************************************************************************)

\* the components that are single functions
unitVars == <<fromVars, dedupVars, classifyVars, keywordVars, wslVars>>

UnitOff == FromOff /\ DedupOff /\ ClassifyOff /\ KeywordOff /\ WslOff

SearchNext ==
    RipgrepSearch
    /\ UNCHANGED <<rankVars, chunkVars, budgetVars, distillVars, askVars,
                   unitVars>>

InitSearch ==
    SearchInit /\ RankOff /\ ChunkOff /\ BudgetOff /\ DistillOff /\ AskOff
    /\ UnitOff

SpecSearch == InitSearch /\ [][SearchNext]_vars

RankNext ==
    Rank
    /\ UNCHANGED <<searchVars, chunkVars, budgetVars, distillVars, askVars,
                   unitVars>>

RankDedupNext ==
    (Rank \/ DeduplicateRanked)
    /\ UNCHANGED <<searchVars, chunkVars, budgetVars, distillVars, askVars,
                   unitVars>>

InitRankDedup ==
    RankDedupInit /\ SearchOff /\ ChunkOff /\ BudgetOff /\ DistillOff /\ AskOff
    /\ UnitOff

SpecRankDedup == InitRankDedup /\ [][RankDedupNext]_vars

InitRank ==
    RankInit /\ SearchOff /\ ChunkOff /\ BudgetOff /\ DistillOff /\ AskOff
    /\ UnitOff

SpecRank == InitRank /\ [][RankNext]_vars

chunkFrame ==
    <<rankVars, searchVars, budgetVars, distillVars, askVars, unitVars>>

ChunkNext ==
    \/ ChunkFile /\ UNCHANGED chunkFrame
    \/ ChunkMarkdown /\ UNCHANGED chunkFrame
    \/ ChunkCode /\ UNCHANGED chunkFrame

InitChunk ==
    ChunkInit /\ RankOff /\ SearchOff /\ BudgetOff /\ DistillOff /\ AskOff
    /\ UnitOff

SpecChunk == InitChunk /\ [][ChunkNext]_vars

BudgetNext ==
    GetTokenBudget
    /\ UNCHANGED <<rankVars, searchVars, chunkVars, distillVars, askVars,
                   unitVars>>

InitBudget ==
    BudgetInit /\ RankOff /\ SearchOff /\ ChunkOff /\ DistillOff /\ AskOff
    /\ UnitOff

SpecBudget == InitBudget /\ [][BudgetNext]_vars

distillFrame ==
    <<rankVars, searchVars, chunkVars, budgetVars, askVars, unitVars>>

\* one thread: calls follow one another, and clear_cache is called between
\* calls
DistillNext ==
    \/ DistillBegin(1, QueryPool, RankedListPool, MaxCalls)
          /\ UNCHANGED distillFrame
    \/ CheckIn(1) /\ UNCHANGED distillFrame
    \/ CheckGet(1) /\ UNCHANGED distillFrame
    \/ CheckTime(1) /\ UNCHANGED distillFrame
    \/ CheckDel(1) /\ UNCHANGED distillFrame
    \/ Backend(1) /\ UNCHANGED distillFrame
    \/ Store(1) /\ UNCHANGED distillFrame
    \/ DistillEnd(1) /\ UNCHANGED distillFrame
    \/ Tick /\ UNCHANGED distillFrame
    \/ d_pc[1] = "idle" /\ ClearCache /\ UNCHANGED distillFrame

\* one thread, called with ranked lists that are alike
AlikeNext ==
    \/ DistillBegin(1, QueryPool, AlikeListPool, MaxCalls)
          /\ UNCHANGED distillFrame
    \/ CheckIn(1) /\ UNCHANGED distillFrame
    \/ CheckGet(1) /\ UNCHANGED distillFrame
    \/ CheckTime(1) /\ UNCHANGED distillFrame
    \/ CheckDel(1) /\ UNCHANGED distillFrame
    \/ Backend(1) /\ UNCHANGED distillFrame
    \/ Store(1) /\ UNCHANGED distillFrame
    \/ DistillEnd(1) /\ UNCHANGED distillFrame
    \/ Tick /\ UNCHANGED distillFrame
    \/ d_pc[1] = "idle" /\ ClearCache /\ UNCHANGED distillFrame

InitDistill ==
    DistillInit /\ RankOff /\ SearchOff /\ ChunkOff /\ BudgetOff /\ AskOff
    /\ UnitOff

SpecDistill == InitDistill /\ [][DistillNext]_vars

SpecAlike == InitDistill /\ [][AlikeNext]_vars

\* two threads on one key: the calls and clear_cache interleave in every way
ConcurrentNext ==
    \/ \E t \in Threads :
          DistillBegin(t, {Chars("x")}, {OneChunk}, MaxConcurrentCalls)
          /\ UNCHANGED distillFrame
    \/ \E t \in Threads : CheckIn(t) /\ UNCHANGED distillFrame
    \/ \E t \in Threads : CheckGet(t) /\ UNCHANGED distillFrame
    \/ \E t \in Threads : CheckTime(t) /\ UNCHANGED distillFrame
    \/ \E t \in Threads : CheckDel(t) /\ UNCHANGED distillFrame
    \/ \E t \in Threads : Backend(t) /\ UNCHANGED distillFrame
    \/ \E t \in Threads : Store(t) /\ UNCHANGED distillFrame
    \/ \E t \in Threads : DistillEnd(t) /\ UNCHANGED distillFrame
    \/ Tick /\ UNCHANGED distillFrame
    \/ ClearCache /\ UNCHANGED distillFrame

InitConcurrent ==
    DistillInit /\ RankOff /\ SearchOff /\ ChunkOff /\ BudgetOff /\ AskOff
    /\ UnitOff

SpecConcurrent == InitConcurrent /\ [][ConcurrentNext]_vars

AskNext ==
    AskKnowledgeBase
    /\ UNCHANGED <<rankVars, searchVars, chunkVars, budgetVars, distillVars,
                   unitVars>>

InitAsk ==
    AskInit /\ RankOff /\ ChunkOff /\ BudgetOff /\ DistillOff /\ UnitOff

SpecAsk == InitAsk /\ [][AskNext]_vars

componentVars ==
    <<rankVars, chunkVars, budgetVars, distillVars, askVars>>

ComponentsOff == RankOff /\ ChunkOff /\ BudgetOff /\ DistillOff /\ AskOff

fromFrame ==
    <<componentVars, searchVars, dedupVars, classifyVars, keywordVars, wslVars>>

FromResultsNext ==
    \/ GroupResults /\ UNCHANGED fromFrame
    \/ ChunkNextFile /\ UNCHANGED fromFrame
    \/ FromResultsReturn /\ UNCHANGED fromFrame

InitFromResults ==
    FromInit /\ ComponentsOff /\ DedupOff /\ ClassifyOff /\ KeywordOff /\ WslOff

SpecFromResults == InitFromResults /\ [][FromResultsNext]_vars

DedupNext ==
    Deduplicate
    /\ UNCHANGED <<componentVars, searchVars, fromVars, classifyVars,
                   keywordVars, wslVars>>

InitDedup ==
    DedupInit /\ ComponentsOff /\ SearchOff /\ FromOff /\ ClassifyOff
    /\ KeywordOff /\ WslOff

SpecDedup == InitDedup /\ [][DedupNext]_vars

ClassifyNext ==
    (ClassifyQuery \/ ServerClassifyQuery)
    /\ UNCHANGED <<componentVars, searchVars, fromVars, dedupVars,
                   keywordVars, wslVars>>

InitClassify ==
    ClassifyInit /\ ComponentsOff /\ SearchOff /\ FromOff /\ DedupOff
    /\ KeywordOff /\ WslOff

SpecClassify == InitClassify /\ [][ClassifyNext]_vars

keywordFrame ==
    <<componentVars, searchVars, fromVars, dedupVars, classifyVars, wslVars>>

KeywordNext ==
    \/ ExtractKeywords /\ UNCHANGED keywordFrame
    \/ ExtractAgain /\ UNCHANGED keywordFrame

InitKeyword ==
    KeywordInit /\ ComponentsOff /\ SearchOff /\ FromOff /\ DedupOff
    /\ ClassifyOff /\ WslOff

SpecKeyword == InitKeyword /\ [][KeywordNext]_vars

WslNext ==
    WslPathToLinux
    /\ UNCHANGED <<componentVars, searchVars, fromVars, dedupVars,
                   classifyVars, keywordVars>>

InitWsl ==
    WslInit /\ ComponentsOff /\ SearchOff /\ FromOff /\ DedupOff
    /\ ClassifyOff /\ KeywordOff

SpecWsl == InitWsl /\ [][WslNext]_vars

(***************************************************************************)
(* Properties of KnowledgeSearch                                           *)
(***************************************************************************)

\* C1: for every keyword list, every set of search roots and every
\* max_results >= 1, the list returned by ripgrep_search (and by the grep
\* fallback) holds at most max_results results in total, over all roots and
\* all files under a root.
C1_AtMostMaxResults ==
    s_pc = "returned" => Len(results) <= max_results

(***************************************************************************)
(* Properties of Ranker.rank                                               *)
(***************************************************************************)

\* whether some keyword occurs in the chunk's combined header+content text
SomeKeywordOccurs(chunk, kws) ==
    \E k \in 1..Len(kws) :
        Contains(Lower(kws[k]), Lower(CombinedText(chunk)))

\* C2: rank excludes a chunk from its scored list only when no keyword
\* occurs in the chunk's combined text: every chunk in which a keyword
\* occurs has a final score > 0 and is kept, also when the keyword occurs in
\* every chunk (negative IDF) and in the header (boost 2.0).
C2_MatchedChunkIsKept ==
    rk_pc = "ranked" =>
        \A c \in 1..Len(chunks) :
            SomeKeywordOccurs(chunks[c], keywords) =>
                /\ calculate_score(chunks[c], keywords, chunks).score > 0
                /\ \E i \in 1..Len(scored) : scored[i].chunk = chunks[c]

\* C3: every RankedChunk returned by rank has score > 0 and a non-empty
\* matched_keywords list; a chunk whose combined text contains none of the
\* keywords never appears; rank of an empty keyword list or an empty chunk
\* list is the empty list.
C3_RankedHaveMatches ==
    rk_pc = "ranked" =>
        /\ \A i \in 1..Len(ranked) :
              /\ ranked[i].score > 0
              /\ Len(ranked[i].matched_keywords) > 0
              /\ SomeKeywordOccurs(ranked[i].chunk, keywords)
        /\ (Len(chunks) = 0 \/ Len(keywords) = 0) => ranked = <<>>

\* a call that returned a chunk and left out a chunk without any keyword
C3_Witness ==
    /\ rk_pc = "ranked"
    /\ Len(ranked) > 0
    /\ \E c \in 1..Len(chunks) : ~SomeKeywordOccurs(chunks[c], keywords)

\* the positions of the input chunks with a positive score
PositivePositions ==
    {c \in 1..Len(chunks) :
        calculate_score(chunks[c], keywords, chunks).score > 0}

\* C4: the list returned by rank is ordered by score non-increasing, chunks
\* of equal score keep the relative order of the input list, and the list
\* holds at most top_n elements, the highest-scoring positive-score chunks.
C4_SortedStableTopN ==
    rk_pc = "ranked" =>
        /\ Len(ranked) = Min(top_n, Cardinality(PositivePositions))
        /\ \E f \in [1..Len(ranked) -> PositivePositions] :
              /\ \A i \in 1..Len(ranked) :
                    /\ ranked[i].chunk = chunks[f[i]]
                    /\ ranked[i].score =
                          calculate_score(chunks[f[i]], keywords, chunks).score
              /\ \A i, j \in 1..Len(ranked) :
                    i < j =>
                        \/ ranked[i].score > ranked[j].score
                        \/ ranked[i].score = ranked[j].score /\ f[i] < f[j]
              /\ \A c \in PositivePositions :
                    (\A i \in 1..Len(ranked) : f[i] # c) =>
                        \A i \in 1..Len(ranked) :
                            LET s == calculate_score(chunks[c], keywords,
                                                     chunks).score
                            IN  \/ ranked[i].score > s
                                \/ ranked[i].score = s /\ f[i] < c

\* a call that cut the list to top_n, with two different chunks of equal
\* score among those returned and a higher-scoring chunk later in the input
C4_Witness ==
    /\ rk_pc = "ranked"
    /\ Len(ranked) = top_n
    /\ Cardinality(PositivePositions) > top_n
    /\ \E i \in 1..Len(ranked) : \E j \in 1..Len(ranked) :
          /\ i < j
          /\ ranked[i].score = ranked[j].score
          /\ ranked[i].chunk # ranked[j].chunk
    /\ \E c, d \in 1..Len(chunks) :
          /\ c < d
          /\ 0 < calculate_score(chunks[c], keywords, chunks).score
          /\ calculate_score(chunks[c], keywords, chunks).score
                < calculate_score(chunks[d], keywords, chunks).score


(***************************************************************************)
(* Properties of HaikuDistiller.distill and the response cache             *)
(***************************************************************************)

\* the call of thread t has returned, and a call with the same query and
\* ranked chunks had stored a response, not cleared since, less than the TTL
\* before this call (before its lookup read the clock)
RepeatsWithinTTL(t) ==
    /\ d_pc[t] = "returned"
    /\ d_args[t].use_cache
    /\ Len(d_args[t].ranked_chunks) > 0
    /\ d_begin[t].had_stored
    /\ d_begin[t].time - d_begin[t].stored_entry.timestamp < CACHE_TTL_SECONDS

\* C5: after a distill call (use_cache on) whose backend call succeeded, a
\* second call with the same query and the same ranked chunks, made less
\* than the TTL later (and with no clear_cache in between), returns the
\* stored response with cached = True and does not invoke the backend.
C5_CacheRoundTrip ==
    \A t \in Threads :
        RepeatsWithinTTL(t) =>
            /\ d_result[t].cached
            /\ d_result[t].content = d_begin[t].stored_entry.content
            /\ backend_calls = d_begin[t].backend_calls

\* a second call, 3599 seconds after the first, was served from the cache
C5_Witness ==
    /\ RepeatsWithinTTL(1)
    /\ d_begin[1].time - d_begin[1].stored_entry.timestamp
           = CACHE_TTL_SECONDS - 1
    /\ d_result[1].cached

\* C6: under every interleaving of concurrent distill calls and clear_cache
\* on one key, no call fails with an error raised by the cache operations.
C6_NoCacheError ==
    \A t \in Threads : d_pc[t] # "raised"

\* the positions in text where a run of the character c ends
RunEnds(c, text) ==
    {p \in 1..Len(text) :
        text[p] = c /\ (p = Len(text) \/ text[p + 1] # c)}

\* how often the character c occurs in text
CountChar(c, text) == Cardinality({p \in 1..Len(text) : text[p] = c})

\* text renders at most the first 5 of the ranked chunks, each content cut
\* to 500 characters and followed by "..." exactly when it is longer.  The
\* content of each chunk is a run of one character that occurs in no other
\* chunk, header or path.
RendersFirstFive(text, ranked_chunks) ==
    \A i \in 1..Len(ranked_chunks) :
        LET content == ranked_chunks[i].chunk.content
            c == content[1]
        IN  IF i > 5 THEN CountChar(c, text) = 0
            ELSE /\ CountChar(c, text) = Min(Len(content), 500)
                 /\ Cardinality(RunEnds(c, text)) = 1
                 /\ \A p \in RunEnds(c, text) :
                        (SubSeq(text, p + 1, Min(p + 3, Len(text)))
                             = Chars("..."))
                        <=> Len(content) > 500

\* the call of thread t has returned after its backend failed
FellBack(t) == d_pc[t] = "returned" /\ d_begin[t].backend_failed

\* C7 as stated: when the backend fails in any way, distill does not raise;
\* it returns a result with cached = False that renders at most the first 5
\* chunks, truncated to 500 characters plus an ellipsis when longer, and the
\* response cache is left unchanged by the call.
C7_FallbackCacheUnchanged ==
    \A t \in Threads :
        FellBack(t) =>
            /\ ~d_result[t].cached
            /\ RendersFirstFive(d_result[t].content, d_args[t].ranked_chunks)
            /\ cache = d_begin[t].cache

\* C7, amended: when the backend fails in any way, distill does not raise;
\* it returns a result with cached = False that renders at most the first 5
\* chunks, truncated to 500 characters plus an ellipsis when longer, and the
\* call stores nothing in the response cache: the only change it can make
\* is the eviction, by its lookup, of the expired entry under its own key.
C7_FallbackStoresNothing ==
    \A t \in Threads :
        FellBack(t) =>
            /\ ~d_result[t].cached
            /\ RendersFirstFive(d_result[t].content, d_args[t].ranked_chunks)
            /\ DOMAIN cache \subseteq DOMAIN d_begin[t].cache
            /\ \A k \in DOMAIN cache : cache[k] = d_begin[t].cache[k]
            /\ \A k \in DOMAIN d_begin[t].cache \ DOMAIN cache :
                   /\ d_args[t].use_cache
                   /\ k = d_local[t].cache_key
                   /\ d_begin[t].time - d_begin[t].cache[k].timestamp
                          >= CACHE_TTL_SECONDS

\* a call with six chunks fell back after its lookup evicted an expired
\* entry
C7_Witness ==
    /\ FellBack(1)
    /\ Len(d_args[1].ranked_chunks) = 6
    /\ DOMAIN cache # DOMAIN d_begin[1].cache

\* C15: distill called with an empty ranked-chunk list returns the fixed
\* no-relevant-information message with query_type "simple", token_budget 0
\* and cached=False, without invoking the summarization backend and without
\* reading or modifying the response cache, whatever the query and the
\* cache content.
C15_NoChunksShortCircuit ==
    \A t \in Threads :
        (d_pc[t] = "returned" /\ Len(d_args[t].ranked_chunks) = 0) =>
            /\ d_result[t] =
                   DistillationResult(
                       Chars("No relevant information found in knowledge base."),
                       Chars("simple"), 0, FALSE)
            /\ backend_calls = d_begin[t].backend_calls
            /\ cache = d_begin[t].cache
            /\ d_local[t] = NoLocals

\* a call with no chunks, for a query that asks for code and with use_cache
\* set, returned while the cache held a response stored by an earlier call
C15_Witness ==
    /\ d_pc[1] = "returned"
    /\ Len(d_args[1].ranked_chunks) = 0
    /\ d_args[1].query = Chars("Write x")
    /\ d_args[1].use_cache
    /\ DOMAIN cache # {}
    /\ backend_calls > 0

\* C20: a cache lookup returns the stored response for every entry whose age
\* is not older than the TTL of 3600 seconds, including an age of exactly
\* 3600 seconds; only an entry whose age exceeds the TTL is treated as
\* absent, and such an entry is removed from the cache by that lookup.
C20_HitUpToTTL ==
    \A t \in Threads :
        LET age == d_begin[t].time - d_local[t].entry.timestamp
        IN  /\ d_pc[t] = "check_del" => age > CACHE_TTL_SECONDS
            /\ (d_pc[t] = "returned" /\ d_result[t].cached) =>
                   age <= CACHE_TTL_SECONDS

(***************************************************************************)
(* Properties of ask_knowledge_base                                        *)
(***************************************************************************)

\* C8: whenever search, chunking and ranking have produced ranked,
\* deduplicated chunks, ask_knowledge_base produces its answer by passing
\* those chunks and the query to HaikuDistiller.distill, as its last stage.
C8_AskEndsInDistill ==
    (a_pc = "returned" /\ Len(a_ranked) > 0) =>
        a_distilled = <<[query |-> a_query, ranked_chunks |-> a_ranked]>>

(***************************************************************************)
(* Properties of ask_knowledge_base: the tools and the failures            *)
(***************************************************************************)

\* the query that ask_knowledge_base searches for
SearchQuery ==
    IF Truthy(a_context) THEN a_query \o <<" ">> \o a_context ELSE a_query

\* no invocation of rg or of grep finds its program
NeitherToolFound ==
    \A tool \in {"rg", "grep"} : \A root \in {"root_file", "docs_folder"} :
        a_tools[tool][root] = "FileNotFoundError"

\* C13: when neither the primary search tool nor the secondary one can be
\* invoked (both raise not-found), a search with a non-empty keyword list
\* fails with an availability error (RuntimeError) that reaches the caller
\* of ask, instead of returning an empty or partial result list.
C13_NoToolRaises ==
    (/\ a_pc \in {"returned", "raised"}
     /\ a_initialized
     /\ has_knowledge_base(root_file, docs_folder)
     /\ Len(extract_keywords(SearchQuery)) > 0
     /\ NeitherToolFound)
        => /\ a_pc = "raised"
           /\ a_stage = "search"
           /\ a_response = <<"RuntimeError">>

\* rg was taken as available, and neither it nor grep could be started on a
\* knowledge base of a root document and a folder: the call raised
C13_Witness ==
    /\ a_pc = "raised"
    /\ a_stage = "search"
    /\ a_initialized
    /\ use_ripgrep
    /\ root_file # None
    /\ docs_folder.exists
    /\ Len(extract_keywords(SearchQuery)) > 0
    /\ NeitherToolFound

\* a tool that every invocation finds: rg where it is in use, or grep
ToolAvailable ==
    \/ use_ripgrep /\ \A root \in {"root_file", "docs_folder"} :
                          a_tools["rg"][root] # "FileNotFoundError"
    \/ \A root \in {"root_file", "docs_folder"} :
           a_tools["grep"][root] # "FileNotFoundError"

\* what the stages of the call yield for its arguments
Found ==
    search(SearchQuery, root_file, docs_folder, use_ripgrep, a_tools,
           prints_path)

FoundChunks == chunk_from_results(Found.results, root_file, docs_folder)

FoundRanked ==
    deduplicate(rank(FoundChunks, extract_keywords(SearchQuery),
                     search_top_chunks))

\* C14: with the server initialized and a search tool available,
\* ask_knowledge_base returns explanatory text and never raises in each of
\* these cases: no knowledge base exists, the search returns no results, no
\* chunk can be built from the results, or ranking keeps no chunk.
C14_FailuresAreText ==
    (a_pc \in {"returned", "raised"} /\ a_initialized /\ ToolAvailable) =>
        IF ~has_knowledge_base(root_file, docs_folder)
        THEN /\ a_pc = "returned"
             /\ a_response = Chars("No knowledge base found. Expected CLAUDE.md in workspace root and/or .claude/ folder with documentation.")
        ELSE IF Len(Found.results) = 0
        THEN /\ a_pc = "returned"
             /\ a_response = Chars("No relevant information found for query: ")
                                 \o a_query
        ELSE IF Len(FoundChunks) = 0
        THEN /\ a_pc = "returned"
             /\ a_response = Chars("No relevant content found for query: ")
                                 \o a_query
        ELSE IF Len(FoundRanked) = 0
        THEN /\ a_pc = "returned"
             /\ a_response =
                    Chars("No relevant information found in knowledge base.")
        ELSE TRUE

\* the search found lines and chunks were built from them, and ranking kept
\* none of the chunks: the fixed text was returned
C14_Witness ==
    /\ a_pc = "returned"
    /\ a_initialized
    /\ ToolAvailable
    /\ Len(Found.results) > 0
    /\ Len(FoundChunks) > 0
    /\ Len(FoundRanked) = 0
    /\ a_response = Chars("No relevant information found in knowledge base.")

(***************************************************************************)
(* Properties of get_token_budget                                          *)
(***************************************************************************)

\* the budget of an intent under the default configuration
BudgetOf(intent) == get_token_budget(Chars(intent), HaikuConfig)

\* every other intent string gets the default budget
OthersGetDefault ==
    (b_pc = "returned" /\ b_query_type \notin QueryTypes)
        => b_budget = default_budget

\* C9 as stated: under the default configuration
\* budget(simple) < budget(complex) < budget(code_example), and any intent
\* string other than the three recognized ones maps to the separate default
\* budget.
C9_BudgetOrder ==
    /\ BudgetOf("simple") < BudgetOf("complex")
    /\ BudgetOf("complex") < BudgetOf("code_example")
    /\ OthersGetDefault

\* C9, amended: under the default configuration
\* budget(simple) < budget(code_example) < budget(complex), and any intent
\* string other than the three recognized ones maps to the separate default
\* budget, which is none of the three.
C9_BudgetOrderAmended ==
    /\ BudgetOf("simple") < BudgetOf("code_example")
    /\ BudgetOf("code_example") < BudgetOf("complex")
    /\ default_budget
           \notin {BudgetOf("simple"), BudgetOf("code_example"),
                   BudgetOf("complex")}
    /\ OthersGetDefault

\* an intent that differs from a recognized one by a trailing blank got the
\* default budget
C9_Witness ==
    /\ b_pc = "returned"
    /\ b_query_type = Chars("simple ")
    /\ b_budget = default_budget

(***************************************************************************)
(* Properties of the Chunker                                               *)
(***************************************************************************)

\* whether chunk c is the lines start_line..end_line of the text source
IsLinesOf(c, source) ==
    /\ 1 <= c.start_line
    /\ c.start_line <= c.end_line
    /\ c.end_line <= Len(SplitLines(source))
    /\ Len(SplitLines(c.content)) = c.end_line - c.start_line + 1
    /\ SplitLines(c.content)
           = SubSeq(SplitLines(source), c.start_line, c.end_line)

\* C10: every chunk produced by chunk_markdown, chunk_code or chunk_file
\* (also for empty content, content without headings or declarations, and
\* unrecognized extensions) has 1 <= start_line <= end_line, and its content
\* split on newline has exactly end_line - start_line + 1 lines, equal to
\* the lines start_line..end_line of the text segmented.
C10_ChunkIsItsLines ==
    c_pc = "returned" =>
        \A i \in 1..Len(c_chunks) : IsLinesOf(c_chunks[i], c_source)

\* a text of three lines was split in two chunks, the second of two lines
C10_Witness ==
    /\ c_pc = "returned"
    /\ Len(c_chunks) = 2
    /\ c_chunks[2].start_line = 2
    /\ c_chunks[2].end_line = 3
    /\ c_chunks[2].header # None

(***************************************************************************)
(* Properties of Chunker.chunk_from_results                                *)
(***************************************************************************)

\* the files of the results, and the hit lines of one file
HitPaths == {f_results[r].file_path : r \in 1..Len(f_results)}

HitLines(path) ==
    {f_results[r].line_number :
        r \in {q \in 1..Len(f_results) : f_results[q].file_path = path}}

\* how many times x stands in list
Occurrences(list, x) == Cardinality({i \in 1..Len(list) : list[i] = x})

\* the segments of the file at path
SegmentsOf(path) == chunk_file(path, ReadFile(path, root_file, docs_folder))

HoldsHit(c) ==
    \E n \in HitLines(c.file_path) : c.start_line <= n /\ n <= c.end_line

\* C11: chunk_from_results, for any list of search results spanning any
\* number of files, segments each distinct file exactly once and returns
\* exactly the chunks of those files that contain the line number of at
\* least one hit of the same file; a chunk containing several hits is
\* returned once, never once per hit.
C11_HitChunksOnce ==
    f_pc = "returned" =>
        /\ \A path \in HitPaths : Occurrences(f_segmented, path) = 1
        /\ \A i \in 1..Len(f_segmented) : f_segmented[i] \in HitPaths
        /\ \A path \in HitPaths :
              \A j \in 1..Len(SegmentsOf(path)) :
                  Occurrences(f_chunks, SegmentsOf(path)[j])
                      = IF HoldsHit(SegmentsOf(path)[j]) THEN 1 ELSE 0
        /\ \A i \in 1..Len(f_chunks) :
              \E path \in HitPaths :
                  \E j \in 1..Len(SegmentsOf(path)) :
                      f_chunks[i] = SegmentsOf(path)[j]

\* results in two files; the first chunk returned holds two of the hits, and
\* each file gave one chunk
C11_Witness ==
    /\ f_pc = "returned"
    /\ Cardinality(HitPaths) = 2
    /\ Len(f_chunks) = 2
    /\ f_chunks[1].file_path # f_chunks[2].file_path
    /\ Cardinality({n \in HitLines(f_chunks[1].file_path) :
                       f_chunks[1].start_line <= n
                           /\ n <= f_chunks[1].end_line}) = 2

(***************************************************************************)
(* Properties of Ranker.deduplicate                                        *)
(***************************************************************************)

\* whether two ranked chunks have the same first 200 characters of content
SamePrefix(a, b) == Take(a.chunk.content, 200) = Take(b.chunk.content, 200)

\* the positions of the chunks that follow none of the same prefix
FirstOfPrefix(rcs) ==
    {i \in 1..Len(rcs) : \A j \in 1..(i - 1) : ~SamePrefix(rcs[j], rcs[i])}

\* the elements of list at the positions in idx, in the order of list
RECURSIVE Restrict(_, _)
Restrict(list, idx) ==
    IF Len(list) = 0 THEN <<>>
    ELSE LET front == Restrict(SubSeq(list, 1, Len(list) - 1), idx)
         IN  IF Len(list) \in idx THEN Append(front, list[Len(list)])
             ELSE front

\* C12: Ranker.deduplicate returns an order-preserving subsequence of its
\* input in which no two chunks have the same first 200 characters of
\* content; for each group of chunks sharing those 200 characters, exactly
\* the first (highest-ranked) one is kept, and chunks with a unique prefix
\* are all kept.
C12_FirstOfEachPrefix ==
    u_pc = "returned" =>
        /\ u_result = Restrict(u_ranked, FirstOfPrefix(u_ranked))
        /\ \A i, j \in 1..Len(u_result) :
              SamePrefix(u_result[i], u_result[j]) => i = j

\* of three chunks the first two agree on 200 characters and differ after
\* them, the third differs from them at the 200th: the second was dropped
C12_Witness ==
    /\ u_pc = "returned"
    /\ Len(u_ranked) = 3
    /\ u_ranked[1].chunk.content # u_ranked[2].chunk.content
    /\ SamePrefix(u_ranked[1], u_ranked[2])
    /\ Take(u_ranked[1].chunk.content, 199) = Take(u_ranked[3].chunk.content, 199)
    /\ u_result = <<u_ranked[1], u_ranked[3]>>

(***************************************************************************)
(* Properties of classify_query                                            *)
(***************************************************************************)

\* whether the lower-cased query holds one of the indicators
HoldsIndicator(indicators, query) ==
    \E i \in 1..Len(indicators) : Contains(indicators[i], Lower(query))

\* C16: classify_query returns exactly one of simple, code_example, complex
\* for every query; it returns code_example whenever the lower-cased query
\* contains any code-example indicator, even if it also contains complex
\* indicators; it returns complex only when no code-example indicator and at
\* least one complex indicator is present; otherwise simple.
C16_CodeBeforeComplex ==
    q_pc = "returned" =>
        /\ q_type \in {Chars("simple"), Chars("code_example"), Chars("complex")}
        /\ HoldsIndicator(haiku_code_keywords, q_query) =>
               q_type = Chars("code_example")
        /\ q_type = Chars("complex") <=>
               /\ ~HoldsIndicator(haiku_code_keywords, q_query)
               /\ HoldsIndicator(haiku_complex_keywords, q_query)
        /\ (/\ ~HoldsIndicator(haiku_code_keywords, q_query)
            /\ ~HoldsIndicator(haiku_complex_keywords, q_query)) =>
               q_type = Chars("simple")

\* a query with a complex indicator in capitals and the code indicator
\* "how to" was classified as code_example
C16_Witness ==
    /\ q_pc = "returned"
    /\ q_query = Chars("DESIGN how to")
    /\ q_type = Chars("code_example")

(***************************************************************************)
(* Properties of KnowledgeSearch.extract_keywords                          *)
(***************************************************************************)

\* the position at which x first stands in list
FirstIndex(list, x) ==
    CHOOSE i \in 1..Len(list) :
        list[i] = x /\ \A j \in 1..(i - 1) : list[j] # x

HasUpper(word) ==
    \E i \in 1..Len(word) : \E n \in 1..26 : word[i] = UpperLetters[n]

\* C17: for every query string, extract_keywords returns lowercase tokens in
\* order of first occurrence, with no token repeated, no token of length
\* <= 2 and no token in the stop-word set; an empty or all-stop-word query
\* yields the empty list.
C17_KeywordsAreClean ==
    k_pc \in {"extracted", "again"} =>
        LET tokens == Tokens(Lower(k_query))
            n == Len(k_keywords)
        IN  /\ \A i \in 1..n :
                  /\ ~HasUpper(k_keywords[i])
                  /\ Len(k_keywords[i]) > 2
                  /\ k_keywords[i] \notin STOP_WORDS
                  /\ \E p \in 1..Len(tokens) : tokens[p] = k_keywords[i]
            /\ \A i, j \in 1..n : k_keywords[i] = k_keywords[j] => i = j
            /\ \A i, j \in 1..n :
                  i < j => FirstIndex(tokens, k_keywords[i])
                               < FirstIndex(tokens, k_keywords[j])
            /\ (\A p \in 1..Len(tokens) : tokens[p] \in STOP_WORDS) =>
                   k_keywords = <<>>

\* a query of three words, one of them twice in different cases: two
\* keywords were returned
C17_Witness ==
    /\ k_pc = "extracted"
    /\ k_query # Lower(k_query)
    /\ Len(Tokens(Lower(k_query))) = 3
    /\ Tokens(Lower(k_query))[1] = Tokens(Lower(k_query))[3]
    /\ Len(k_keywords) = 2

\* C18: extract_keywords is idempotent: for every query q, applying
\* extract_keywords to the space-joined output of extract_keywords(q)
\* returns the same keyword list, in the same order.
C18_ExtractIdempotent ==
    k_pc = "again" => k_again = k_keywords

\* the keywords of a query that is not its keywords joined were extracted
\* again from their join: two keywords both times
C18_Witness ==
    /\ k_pc = "again"
    /\ Len(k_keywords) = 2
    /\ Len(k_again) = 2
    /\ Lower(k_query) # Join(<<" ">>, k_keywords)

(***************************************************************************)
(* Properties of wsl_path_to_linux                                         *)
(***************************************************************************)

\* the segments of a path between its backslashes
RECURSIVE SegmentsFrom(_, _, _)
SegmentsFrom(s, i, cur) ==
    IF i > Len(s) THEN <<cur>>
    ELSE IF s[i] = "\\" THEN <<cur>> \o SegmentsFrom(s, i + 1, <<>>)
    ELSE SegmentsFrom(s, i + 1, Append(cur, s[i]))

Segments(s) == SegmentsFrom(s, 1, <<>>)

\* a path that starts with one of the two share prefixes: two backslashes,
\* the host name wsl.localhost or wsl$, and a backslash
HasSharePrefix(path_str) ==
    LET segs == Segments(path_str)
    IN  /\ Len(segs) >= 4
        /\ segs[1] = <<>>
        /\ segs[2] = <<>>
        /\ segs[3] \in {Chars("wsl.localhost"), Chars("wsl$")}

\* the segments after the distribution name, the fourth segment
AfterDistro(path_str) == SubSeq(Segments(path_str), 5, Len(Segments(path_str)))

\* C19: wsl_path_to_linux returns the input string unchanged for every path
\* that does not start with one of the two share prefixes, which are exactly
\* the paths for which is_wsl_path is false; for a path with such a prefix
\* it returns a string that starts with "/", holds no backslash and is "/"
\* followed by the segments after the distribution name joined by "/" (just
\* "/" when nothing follows the distribution name).
C19_SharePathsBecomeRooted ==
    w_pc = "returned" =>
        /\ is_wsl_path(w_path) <=> HasSharePrefix(w_path)
        /\ ~HasSharePrefix(w_path) => w_linux = w_path
        /\ HasSharePrefix(w_path) =>
               /\ Len(w_linux) >= 1
               /\ w_linux[1] = "/"
               /\ \A i \in 1..Len(w_linux) : w_linux[i] # "\\"
               /\ w_linux = <<"/">> \o Join(<<"/">>, AfterDistro(w_path))
               /\ Len(AfterDistro(w_path)) = 0 => w_linux = <<"/">>

\* a share path with a distribution name and two segments after it was
\* converted, and the result is not the path with its separators rewritten
C19_Witness ==
    /\ w_pc = "returned"
    /\ HasSharePrefix(w_path)
    /\ Len(AfterDistro(w_path)) = 2
    /\ Len(Segments(w_path)[4]) > 0
    /\ Len(w_linux) > 1
    /\ w_linux # Replace(w_path, "\\", "/")

(***************************************************************************)
(* Properties of KnowledgeSearch: the roots, the fallback and the timeout  *)
(***************************************************************************)

\* the results parsed from the first n invocations that ran to their end
RECURSIVE CollectedBy(_)
CollectedBy(n) ==
    IF n = 0 THEN <<>>
    ELSE CollectedBy(n - 1)
         \o (IF invocations[n].outcome = "ok"
             THEN ParseOutput(ToolOutput(invocations[n].tool,
                                         invocations[n].root, root_file,
                                         docs_folder, s_keywords,
                                         invocations[n].max_count,
                                         prints_path), s_keywords)
             ELSE <<>>)

\* the invocations of the primary tool that raised not-found
RgNotFound ==
    {i \in 1..Len(invocations) :
        /\ invocations[i].tool = "rg"
        /\ invocations[i].outcome = "FileNotFoundError"}

\* C21: when the primary tool raises not-found while a root is scanned, the
\* search retries that same root with the secondary tool and goes on with
\* the following roots; the results collected from earlier roots are kept
\* as collected and those roots are not searched again.
C21_FallbackRetriesSameRoot ==
    s_pc \in {"returned", "raised"} =>
        \A i \in RgNotFound :
            /\ i < Len(invocations)
            /\ invocations[i + 1].tool = "grep"
            /\ invocations[i + 1].root = invocations[i].root
            /\ \A j \in 1..(i - 1), k \in (i + 1)..Len(invocations) :
                  invocations[k].root # invocations[j].root
            /\ s_pc = "returned" =>
                  /\ Len(results) >= Len(CollectedBy(i))
                  /\ Take(results, Len(CollectedBy(i))) = CollectedBy(i)

\* the results one tool's loop has parsed from its first invocations, those
\* among the first n of the call
RECURSIVE CollectedIn(_, _)
CollectedIn(tool, n) ==
    IF n = 0 THEN <<>>
    ELSE CollectedIn(tool, n - 1)
         \o (IF invocations[n].tool = tool /\ invocations[n].outcome = "ok"
             THEN ParseOutput(ToolOutput(tool, invocations[n].root,
                                         root_file, docs_folder, s_keywords,
                                         invocations[n].max_count,
                                         prints_path), s_keywords)
             ELSE <<>>)

HitsFrom(tool, root) ==
    IF \E i \in 1..Len(invocations) :
           /\ invocations[i].tool = tool
           /\ invocations[i].root = root
           /\ invocations[i].outcome = "ok"
    THEN LET i == CHOOSE j \in 1..Len(invocations) :
                      /\ invocations[j].tool = tool
                      /\ invocations[j].root = root
                      /\ invocations[j].outcome = "ok"
         IN  ParseOutput(ToolOutput(tool, root, root_file, docs_folder,
                                    s_keywords, invocations[i].max_count,
                                    prints_path), s_keywords)
    ELSE <<>>

\* C23: roots are scanned in the order root document, documentation tree:
\* in every returned list all hits from the root document precede all hits
\* from the documentation tree, and the documentation tree is invoked only
\* if the root document left a positive remaining budget.
C23_RootDocumentFirst ==
    (s_pc = "returned" /\ Len(invocations) > 0) =>
        LET tool == invocations[Len(invocations)].tool
        IN  /\ results = HitsFrom(tool, "root_file")
                             \o HitsFrom(tool, "docs_folder")
            /\ \A i \in 1..Len(invocations) :
                  invocations[i].root = "docs_folder" =>
                      /\ invocations[i].max_count > 0
                      /\ \A j \in 1..Len(invocations) :
                            invocations[j].root = "root_file"
                                /\ invocations[j].tool = invocations[i].tool
                                => j < i
                      /\ root_file # None =>
                            /\ i > 1
                            /\ invocations[i - 1] =
                                   Invocation(invocations[i].tool,
                                              "root_file",
                                              max_results, "ok")
                            /\ invocations[i].max_count =
                                   max_results
                                     - Len(HitsFrom(invocations[i].tool,
                                                    "root_file"))

\* one hit from the root document and then one from the documentation tree
C23_Witness ==
    /\ s_pc = "returned"
    /\ Len(invocations) = 2
    /\ Len(HitsFrom(invocations[1].tool, "root_file")) = 1
    /\ Len(HitsFrom(invocations[2].tool, "docs_folder")) = 1
    /\ Len(results) = 2
    /\ results[1].file_path = root_file_path
    /\ results[2].file_path # root_file_path

(***************************************************************************)
(* Properties of one segmentation pass                                     *)
(***************************************************************************)

\* C24: the chunks produced by one segmentation pass over a file are
\* strictly ordered by start_line and pairwise non-overlapping: for
\* consecutive chunks a, b of the returned list, a.end_line < b.start_line.
C24_ChunksOrderedDisjoint ==
    c_pc = "returned" =>
        /\ \A i \in 1..(Len(c_chunks) - 1) :
              /\ c_chunks[i].start_line < c_chunks[i + 1].start_line
              /\ c_chunks[i].end_line < c_chunks[i + 1].start_line
        /\ \A i, j \in 1..Len(c_chunks) :
              i < j =>
                  {n \in 1..Len(SplitLines(c_source)) :
                      /\ c_chunks[i].start_line <= n
                      /\ n <= c_chunks[i].end_line
                      /\ c_chunks[j].start_line <= n
                      /\ n <= c_chunks[j].end_line} = {}

\* a text of three lines was split in three chunks
C24_Witness ==
    /\ c_pc = "returned"
    /\ Len(SplitLines(c_source)) = 3
    /\ Len(c_chunks) = 3
    /\ c_chunks[3].start_line = 3

(***************************************************************************)
(* Properties of chunk_from_results: files that cannot be read, and lines  *)
(* in no chunk                                                             *)
(***************************************************************************)

\* whether there is a file to read at the path
Readable(path) == ReadFile(path, root_file, docs_folder).readable

\* the segments of the text of a readable file
SegmentsOfText(path) ==
    chunk_text(read_text(ReadFile(path, root_file, docs_folder).data), path)

\* C25: a file that cannot be read contributes zero chunks and raises
\* nothing: chunk_file returns the empty list for it, and chunk_from_results
\* still returns the hit-containing chunks of every other, readable file of
\* the batch.
C25_UnreadableGivesNoChunk ==
    f_pc = "returned" =>
        /\ f_segmented = f_by_file
        /\ \A path \in HitPaths :
              ~Readable(path) =>
                  /\ chunk_file(path, Unreadable) = <<>>
                  /\ \A i \in 1..Len(f_chunks) : f_chunks[i].file_path # path
        /\ \A path \in HitPaths :
              Readable(path) =>
                  \A j \in 1..Len(SegmentsOfText(path)) :
                      HoldsHit(SegmentsOfText(path)[j]) =>
                          Occurrences(f_chunks, SegmentsOfText(path)[j]) = 1

\* the first result points at a path with no file, the later ones into the
\* two files: one chunk of each was returned
C25_Witness ==
    /\ f_pc = "returned"
    /\ Len(f_by_file) = 3
    /\ ~Readable(f_by_file[1])
    /\ Readable(f_by_file[2])
    /\ Readable(f_by_file[3])
    /\ Len(f_chunks) = 2

\* the lines of the file at a readable path
LinesAt(path) ==
    SplitLines(read_text(ReadFile(path, root_file, docs_folder).data))

\* the numbers of the lines that are a heading (markdown) or a declaration
\* (Python) of the file at a readable path
StartLines(path) ==
    LET pattern == IF Lower(Suffix(path)) = Chars(".md")
                   THEN MD_HEADER_PATTERN ELSE PYTHON_FUNCTION_PATTERN
    IN  {n \in 1..Len(LinesAt(path)) :
            PatternMatch(pattern, LinesAt(path)[n]).matched}

\* the least of a non-empty set of numbers
Least(S) == CHOOSE n \in S : \A m \in S : n <= m

\* C29: for a file with at least one heading or declaration, the chunks
\* tile exactly the lines from the first heading or declaration to the last
\* line of the file with no gap, one chunk per heading or declaration,
\* each starting on the line after the previous one ends; lines before the
\* first heading or declaration belong to no chunk, so chunk_from_results
\* returns no chunk for a hit located there.
C29_ChunksTileFromFirstStart ==
    f_pc = "returned" =>
        \A path \in HitPaths :
            (Readable(path) /\ StartLines(path) # {}) =>
                LET segs == SegmentsOf(path)
                    first == Least(StartLines(path))
                IN  /\ Len(segs) = Cardinality(StartLines(path))
                    /\ \A i \in 1..Len(segs) :
                          segs[i].start_line \in StartLines(path)
                    /\ segs[1].start_line = first
                    /\ \A i \in 1..(Len(segs) - 1) :
                          segs[i + 1].start_line = segs[i].end_line + 1
                    /\ segs[Len(segs)].end_line = Len(LinesAt(path))
                    /\ \A n \in 1..(first - 1), i \in 1..Len(segs) :
                          ~(segs[i].start_line <= n /\ n <= segs[i].end_line)
                    /\ (\A n \in HitLines(path) : n < first) =>
                          \A i \in 1..Len(f_chunks) :
                              f_chunks[i].file_path # path

\* the only hit of the code file is on its first line, which is before its
\* only declaration; a hit in the markdown file gave a chunk, this one none
C29_Witness ==
    /\ f_pc = "returned"
    /\ Cardinality(HitPaths) = 2
    /\ \E path \in HitPaths :
          /\ Readable(path)
          /\ Suffix(path) = Chars(".py")
          /\ HitLines(path) = {1}
          /\ Least(StartLines(path)) = 2
          /\ SegmentsOf(path)[1].end_line = 3
    /\ Len(f_chunks) = 1
    /\ Suffix(f_chunks[1].file_path) = Chars(".md")

(***************************************************************************)
(* Properties of rank followed by deduplicate                              *)
(***************************************************************************)

\* the ranking of all chunks of positive score, nothing cut
FullRanking ==
    IF Len(chunks) = 0 \/ Len(keywords) = 0 THEN <<>>
    ELSE SortDesc(Scored(chunks, keywords))

\* the full ranking without the chunks that follow one of the same prefix
DistinctRanking == Restrict(FullRanking, FirstOfPrefix(FullRanking))

\* the number of groups of equal prefix among the first n of the ranking
DistinctAmongFirst(n) ==
    Cardinality(FirstOfPrefix(Take(FullRanking, n)))

\* C26: truncation and deduplication commute: deduplicate(rank(chunks,
\* keywords)), where rank cuts to top_n first, equals the first top_n
\* elements of the deduplicated full ranking, so the final list has
\* min(top_n, number of positive-score chunks of distinct 200-character
\* prefixes) elements.
C26_TruncationDedupCommute ==
    rk_pc = "deduplicated" =>
        /\ rk_deduplicated = Take(DistinctRanking, top_n)
        /\ Len(rk_deduplicated) = Min(top_n, Len(DistinctRanking))

\* C26, amended: deduplicate(rank(chunks, keywords)) is a prefix of the
\* deduplicated full ranking, as long as the number of distinct prefixes
\* among the first top_n ranked chunks: at most min(top_n, number of
\* positive-score chunks of distinct prefixes), and equal to the first
\* top_n elements of the deduplicated full ranking when the first top_n
\* ranked chunks have pairwise distinct prefixes.
C26_DedupOfTopNAmended ==
    rk_pc = "deduplicated" =>
        /\ Len(rk_deduplicated) = DistinctAmongFirst(top_n)
        /\ Len(rk_deduplicated) <= Min(top_n, Len(DistinctRanking))
        /\ rk_deduplicated = Take(DistinctRanking, Len(rk_deduplicated))
        /\ DistinctAmongFirst(top_n) = Len(Take(FullRanking, top_n)) =>
               rk_deduplicated = Take(DistinctRanking, top_n)

\* three chunks of positive score, the two ranked first of one prefix and
\* the third of another, cut to two: one chunk is left, though the
\* deduplicated full ranking has two
C26_Witness ==
    /\ rk_pc = "deduplicated"
    /\ top_n = 2
    /\ Len(FullRanking) = 3
    /\ SamePrefix(FullRanking[1], FullRanking[2])
    /\ FullRanking[1].chunk # FullRanking[2].chunk
    /\ Len(DistinctRanking) = 2
    /\ Len(rk_deduplicated) = 1

(***************************************************************************)
(* Properties of the cache key                                             *)
(***************************************************************************)

\* the contents of the chunks of a ranked list, chunk by chunk
ContentsOf(ranked_chunks) ==
    [i \in 1..Len(ranked_chunks) |-> ranked_chunks[i].chunk.content]

\* whether an earlier call stored a response for this query and for chunks
\* of these contents
StoredForSame(query, ranked_chunks) ==
    \E k \in DOMAIN stored :
        /\ k[1] = query
        /\ ContentsOf(k[2]) = ContentsOf(ranked_chunks)

\* C27: a response served from the cache was stored by an earlier distill
\* call with the identical query string and a ranked-chunk list whose chunk
\* contents are identical, chunk by chunk, to those of the current call;
\* two calls whose chunk lists differ in a chunk's content or in how the
\* content is split across chunks never share a cache entry.
C27_CacheHitSameChunks ==
    \A t \in Threads :
        /\ (d_pc[t] = "returned" /\ d_result[t].cached) =>
               StoredForSame(d_args[t].query, d_args[t].ranked_chunks)
        /\ (d_pc[t] \in {"check_in", "check_get", "check_time", "store"}) =>
               \A k \in DOMAIN stored :
                   ContentsOf(k[2]) # ContentsOf(d_args[t].ranked_chunks) =>
                       get_cache_key(k[1], k[2]) # d_local[t].cache_key

(***************************************************************************)
(* Properties of the two classifiers                                       *)
(***************************************************************************)

\* C28: server.classify_query, used by ask_knowledge_base, and
\* haiku_client.classify_query, used by distill, return the same intent for
\* every query string, so the intent and the token budget that ask computes
\* equal those the distiller computes for the same query.
C28_ClassifiersAgree ==
    q_pc = "both" =>
        /\ q_server_type = q_type
        /\ get_token_budget(q_server_type, HaikuConfig)
               = get_token_budget(q_type, HaikuConfig)

(***************************************************************************)
(* Properties of the IDF term                                              *)
(***************************************************************************)

\* the chunks whose combined text holds the keyword
ChunksHolding(kw) ==
    {c \in 1..Len(chunks) :
        Contains(Lower(kw), Lower(CombinedText(chunks[c])))}

\* a keyword list without a repeated keyword
DuplicateFree(kws) == \A i, j \in 1..Len(kws) : kws[i] = kws[j] => i = j

\* C30: in every call rank(chunks, keywords) with a duplicate-free keyword
\* list, each keyword that matches a chunk (tf > 0) has a document
\* frequency df with 1 <= df <= total chunk count, so the IDF argument
\* total / (1 + df) is positive, there is no division by zero and no
\* logarithm outside its domain, and the IDF term is negative exactly when
\* the keyword occurs in every chunk and zero exactly when it occurs in all
\* chunks but one.
C30_IdfWellDefined ==
    (rk_pc = "ranked" /\ DuplicateFree(keywords)) =>
        \A c \in 1..Len(chunks), k \in 1..Len(keywords) :
            keyword_frequency(CombinedText(chunks[c]), keywords[k]) > 0 =>
                LET df == doc_frequency(chunks, keywords, keywords[k])
                    total == Len(chunks)
                IN  /\ df = Cardinality(ChunksHolding(keywords[k]))
                    /\ 1 <= df
                    /\ df <= total
                    /\ 1 + df \in DOMAIN LnMilliTable
                    /\ total \in DOMAIN LnMilliTable
                    /\ LnMilli(total, 1 + df) < 0 <=>
                           ChunksHolding(keywords[k]) = 1..total
                    /\ LnMilli(total, 1 + df) = 0 <=>
                           Cardinality(ChunksHolding(keywords[k])) = total - 1

\* three chunks and two keywords: one keyword occurs in every chunk, the
\* other in all but one
C30_Witness ==
    /\ rk_pc = "ranked"
    /\ Len(chunks) = 3
    /\ Len(keywords) = 2
    /\ DuplicateFree(keywords)
    /\ Cardinality(ChunksHolding(keywords[1])) = 3
    /\ Cardinality(ChunksHolding(keywords[2])) = 2
    /\ LnMilli(3, 1 + doc_frequency(chunks, keywords, keywords[1])) < 0
    /\ LnMilli(3, 1 + doc_frequency(chunks, keywords, keywords[2])) = 0

=============================================================================
